---------------------------- MODULE Spec2Model ----------------------------
(***************************************************************************)
(* A model of the 7zip-wrapper process runner (src/src/core/runner.ts),    *)
(* its streaming commands (src/src/core/commands.ts), its error classifier *)
(* (src/src/core/errors.ts) and its output parsers.                        *)
(*                                                                         *)
(* Text is a sequence of one-character strings, so that substring search,  *)
(* lower-casing, trimming, splitting and integer parsing are computed the  *)
(* way the JavaScript string methods compute them.  An optional value      *)
(* (undefined / null) is the empty sequence; a present number n is <<n>>.  *)
(***************************************************************************)
EXTENDS Integers, Sequences, FiniteSets, TLC

(***************************************************************************)
(* Bounds of the model.                                                    *)
(***************************************************************************)
\* Most stdout 'data' events of one child process.
MaxStdoutChunks == 2
\* Most stderr 'data' events of one child process.
MaxStderrChunks == 1
\* Most fragments concatenated into the stderr text handed to the classifier.
MaxFrags == 1
\* Most lines of a captured listing handed to parseListOutput.
MaxLines == 3

(***************************************************************************)
(* Program constants.                                                      *)
(***************************************************************************)
DEFAULT_TIMEOUT_MS == 30000
EXIT_SUCCESS == 0
EXIT_WARNING == 1
EXIT_FATAL_ERROR == 2
EXIT_USER_STOPPED == 255

\* null / undefined
Null == <<>>
\* a present number
Num(n) == <<n>>

(***************************************************************************)
(* String primitives (the methods of String.prototype).                    *)
(***************************************************************************)
UpperChars ==
    <<"A", "B", "C", "D", "E", "F", "G", "H", "I", "J", "K", "L", "M",
      "N", "O", "P", "Q", "R", "S", "T", "U", "V", "W", "X", "Y", "Z">>
LowerChars ==
    <<"a", "b", "c", "d", "e", "f", "g", "h", "i", "j", "k", "l", "m",
      "n", "o", "p", "q", "r", "s", "t", "u", "v", "w", "x", "y", "z">>
DigitChars == <<"0", "1", "2", "3", "4", "5", "6", "7", "8", "9">>
WhiteSpace == {" ", "\n", "\r", "\t"}

IsDigit(c) == \E i \in 1..10 : DigitChars[i] = c
DigitVal(c) == (CHOOSE i \in 1..10 : DigitChars[i] = c) - 1

ToLowerChar(c) ==
    IF \E i \in 1..26 : UpperChars[i] = c
    THEN LowerChars[CHOOSE i \in 1..26 : UpperChars[i] = c]
    ELSE c

toLowerCase(s) == [i \in 1..Len(s) |-> ToLowerChar(s[i])]

includes(s, sub) ==
    \E i \in 0..(Len(s) - Len(sub)) : SubSeq(s, i + 1, i + Len(sub)) = sub

startsWith(s, p) == Len(s) >= Len(p) /\ SubSeq(s, 1, Len(p)) = p

substring(s, n) == SubSeq(s, n + 1, Len(s))

trim(s) ==
    LET keep == {i \in 1..Len(s) : s[i] \notin WhiteSpace}
    IN  IF keep = {} THEN <<>>
        ELSE SubSeq(s, CHOOSE i \in keep : \A j \in keep : i <= j,
                       CHOOSE i \in keep : \A j \in keep : j <= i)

RECURSIVE concat(_)
\* Buffer.concat(chunks).toString('utf-8'), and Array.prototype.join('')
concat(chunks) ==
    IF chunks = <<>> THEN <<>> ELSE Head(chunks) \o concat(Tail(chunks))

RECURSIVE splitFrom(_, _, _)
splitFrom(s, i, cur) ==
    IF i > Len(s) THEN <<cur>>
    ELSE IF s[i] = "\n" THEN <<cur>> \o splitFrom(s, i + 1, <<>>)
    ELSE splitFrom(s, i + 1, Append(cur, s[i]))

\* output.split('\n')
split(s) == splitFrom(s, 1, <<>>)

RECURSIVE digitsValue(_, _, _)
digitsValue(s, i, acc) ==
    IF i > Len(s) \/ ~IsDigit(s[i]) THEN acc
    ELSE digitsValue(s, i + 1, acc * 10 + DigitVal(s[i]))

\* parseInt(s, 10) || 0 : leading white space skipped, an optional sign, then
\* the longest run of digits; NaN (no digit) and 0 both give 0.
parseIntOr0(s) ==
    LET lead == {i \in 1..Len(s) : s[i] \notin WhiteSpace}
        b    == IF lead = {} THEN Len(s) + 1
                ELSE CHOOSE i \in lead : \A j \in lead : i <= j
        neg  == b <= Len(s) /\ s[b] = "-"
        d    == IF b <= Len(s) /\ s[b] \in {"-", "+"} THEN b + 1 ELSE b
    IN  IF d > Len(s) \/ ~IsDigit(s[d]) THEN 0
        ELSE IF neg THEN 0 - digitsValue(s, d, 0) ELSE digitsValue(s, d, 0)

(***************************************************************************)
(* Literals of src/src/core/errors.ts.                                     *)
(***************************************************************************)
\* the string literals of parseZipWrapperError (errors.ts 149-179)
ErrorsText ==
    [wrong_password |-> <<"w", "r", "o", "n", "g", " ", "p", "a", "s", "s", "w", "o", "r", "d">>,
     incorrect_password |-> <<"i", "n", "c", "o", "r", "r", "e", "c", "t", " ", "p", "a", "s", "s", "w", "o", "r", "d">>,
     enter_password |-> <<"e", "n", "t", "e", "r", " ", "p", "a", "s", "s", "w", "o", "r", "d">>,
     password_is_required |-> <<"p", "a", "s", "s", "w", "o", "r", "d", " ", "i", "s", " ", "r", "e", "q", "u", "i", "r", "e", "d">>,
     encrypted |-> <<"e", "n", "c", "r", "y", "p", "t", "e", "d">>,
     data_error |-> <<"d", "a", "t", "a", " ", "e", "r", "r", "o", "r">>,
     crc_failed |-> <<"c", "r", "c", " ", "f", "a", "i", "l", "e", "d">>,
     headers_error |-> <<"h", "e", "a", "d", "e", "r", "s", " ", "e", "r", "r", "o", "r">>,
     unexpected_end |-> <<"u", "n", "e", "x", "p", "e", "c", "t", "e", "d", " ", "e", "n", "d">>,
     cannot_find_archive |-> <<"c", "a", "n", "n", "o", "t", " ", "f", "i", "n", "d", " ", "a", "r", "c", "h", "i", "v", "e">>,
     cannot_open |-> <<"c", "a", "n", "n", "o", "t", " ", "o", "p", "e", "n">>,
     unknown |-> <<"u", "n", "k", "n", "o", "w", "n">>,
     Unknown_7Zip_error |-> <<"U", "n", "k", "n", "o", "w", "n", " ", "7", "-", "Z", "i", "p", " ", "e", "r", "r", "o", "r">>]

(***************************************************************************)
(* The error classes of src/src/core/errors.ts.  An error is a record of   *)
(* its class name, its stable code and the fields its constructor stores;  *)
(* the human-readable message is kept where it carries data of its own     *)
(* (CompressionError, ZipWrapperError).                                    *)
(***************************************************************************)
ZipWrapperError(message) ==
    [name |-> "ZipWrapperError", code |-> "undefined", message |-> message]

BinaryNotFoundError(searchedPaths) ==
    [name |-> "BinaryNotFoundError", code |-> "BINARY_NOT_FOUND",
     searchedPaths |-> searchedPaths]

ArchiveNotFoundError(archivePath) ==
    [name |-> "ArchiveNotFoundError", code |-> "ARCHIVE_NOT_FOUND",
     archivePath |-> archivePath]

PasswordRequiredError(archivePath) ==
    [name |-> "PasswordRequiredError", code |-> "PASSWORD_REQUIRED",
     archivePath |-> archivePath]

WrongPasswordError(archivePath) ==
    [name |-> "WrongPasswordError", code |-> "WRONG_PASSWORD",
     archivePath |-> archivePath]

CorruptArchiveError(archivePath, details) ==
    [name |-> "CorruptArchiveError", code |-> "CORRUPT_ARCHIVE",
     archivePath |-> archivePath, details |-> details]

CompressionError(message, exitCode) ==
    [name |-> "CompressionError", code |-> "COMPRESSION_ERROR",
     message |-> message, exitCode |-> exitCode]

TimeoutError(timeoutMs, operation) ==
    [name |-> "TimeoutError", code |-> "TIMEOUT",
     timeoutMs |-> timeoutMs, operation |-> operation]

\* `${stderr}\n${stdout}`.toLowerCase()
combinedJoinless(stderr, stdout) == toLowerCase(stderr \o stdout)

combinedText(stderr, stdout) == toLowerCase(stderr \o <<"\n">> \o stdout)

\* x || y on strings: the empty string is falsy
orElse(x, y) == IF x = <<>> THEN y ELSE x

parseZipWrapperError(stderr, stdout, exitCode, archivePath) ==
    LET combined == combinedText(stderr, stdout)
    IN  IF includes(combined, ErrorsText.wrong_password)
           \/ includes(combined, ErrorsText.incorrect_password)
        THEN WrongPasswordError(archivePath)
        ELSE IF includes(combined, ErrorsText.enter_password)
                \/ includes(combined, ErrorsText.password_is_required)
                \/ includes(combined, ErrorsText.encrypted)
        THEN PasswordRequiredError(archivePath)
        ELSE IF includes(combined, ErrorsText.data_error)
                \/ includes(combined, ErrorsText.crc_failed)
                \/ includes(combined, ErrorsText.headers_error)
                \/ includes(combined, ErrorsText.unexpected_end)
        THEN CorruptArchiveError(orElse(archivePath, ErrorsText.unknown), trim(stderr))
        ELSE IF (includes(combined, ErrorsText.cannot_find_archive)
                 \/ includes(combined, ErrorsText.cannot_open))
                /\ archivePath # <<>>
        THEN ArchiveNotFoundError(archivePath)
        ELSE CompressionError(orElse(trim(stderr), ErrorsText.Unknown_7Zip_error), exitCode)

(***************************************************************************)
(* State.                                                                  *)
(***************************************************************************)
VARIABLES
    op,            \* the operation invoked: "idle", "run", "addFromStream", "extractToBuffer"
    args,          \* the argument vector handed to spawn (verb first)
    timeout,       \* run: options.timeout ?? DEFAULT_TIMEOUT_MS
    onProgress,    \* run: whether options.onProgress was supplied
    archivePath,   \* options.archivePath (<<>>: not given)
    timeoutId,     \* run: whether timeoutId holds a timer handle
    timerArmed,    \* run: whether that timer is still pending in the event loop
    killed,        \* run: the local flag `killed`
    stdoutChunks,  \* run: stdoutChunks; extractToBuffer: chunks
    stderrChunks,  \* run: stderrChunks
    childState,    \* "none" (not spawned), "alive", "closed" ('close' was emitted)
    exitCode,      \* the code of the child's 'close' event (Null before, and when killed by a signal)
    signals,       \* how many times child.kill('SIGTERM') was called
    errorEmitted,  \* whether the child emitted 'error'
    stdoutEnded,   \* whether child.stdout emitted 'end' (or was destroyed by an error)
    sourceErrored, \* addFromStream: whether the source stream emitted 'error'
    crashed,       \* an 'error' event was emitted with no listener (uncaught exception)
    promise,       \* the promise returned to the caller: [state, value]
    calls,         \* every call of the promise's resolve / reject, in order
    progressLog,   \* every onProgress callback invocation, in order
    fn,            \* the pure function under test, "none" in the process specifications
    input,         \* its input
    result,        \* its result (Null before it is applied)
    cachedBinaryPath, \* binary.ts 38: Null or Some(path)
    cachedBinaryInfo, \* binary.ts 39: Null or Some(info)
    host,          \* the machine: whether a bundled asset matches it, and what
                   \* each file does when it is run without arguments
    disk,          \* the paths at which a file exists
    downloads,     \* the promises of the asynchronous calls, in call order
    fetches,       \* how many network fetches were started
    volume,        \* the files under the binary directory: the inode each
                   \* name stands for, and the chunks each inode holds
    streams,       \* downloadFile: the write stream of each asynchronous call
    instances      \* the ZipWrapper objects constructed, in order

cfgVars == <<op, args, timeout, onProgress, archivePath, timeoutId>>
childVars == <<childState, exitCode, signals, errorEmitted, stdoutEnded,
               sourceErrored>>
pureVars == <<fn, input, result>>
binaryVars == <<cachedBinaryPath, cachedBinaryInfo, host, disk, downloads,
                fetches, volume, streams, instances>>
vars == <<op, args, timeout, onProgress, archivePath, timeoutId, timerArmed,
          killed, stdoutChunks, stderrChunks, childState, exitCode, signals,
          errorEmitted, stdoutEnded, sourceErrored, crashed, promise, calls,
          progressLog,
          fn, input, result,
          cachedBinaryPath, cachedBinaryInfo, host, disk, downloads, fetches,
          volume, streams, instances>>

(***************************************************************************)
(* Inputs of the process specifications.                                   *)
(***************************************************************************)
CHUNK_progress ==
    <<" ", "5", "%", " ", "-", " ", "a", ".", "t", "x", "t", "\n">>
CHUNK_percent_only ==
    <<"1", "2", "%">>
CHUNK_stdout_wrong_password ==
    <<"W", "r", "o", "n", "g", " ", "p", "a", "s", "s", "w", "o", "r", "d">>
CHUNK_stderr_data_error ==
    <<"E", "R", "R", "O", "R", ":", " ", "D", "a", "t", "a", " ", "E", "r", "r", "o", "r", "\n">>
PATH_archive ==
    <<"a", ".", "7", "z">>

StdoutChunkPool == {CHUNK_progress, CHUNK_percent_only, CHUNK_stdout_wrong_password}
StderrChunkPool == {CHUNK_stderr_data_error}
\* options.timeout: not given, 0 (disabled), 50 ms
TimeoutOptions == {Null, Num(0), Num(50)}
ArchivePathOptions == {<<>>, PATH_archive}
ArgsPool == {<<<<"l">>, <<"-", "s", "l", "t">>, PATH_archive>>}
\* what spawnCommand does: returns a child, or throws from ensureBinaryPath,
\* or throws from spawn itself
SpawnOutcomes == {"ok", "binaryNotFound", "spawnThrows"}
\* the codes of EXIT_CODES, and null (the child was ended by a signal)
ExitCodes == {Num(EXIT_SUCCESS), Num(EXIT_WARNING), Num(EXIT_FATAL_ERROR),
              Num(EXIT_USER_STOPPED), Null}

(***************************************************************************)
(* The promise returned to the caller.  A promise settles once: resolve    *)
(* and reject are no-ops on a settled promise.                             *)
(***************************************************************************)
PendingPromise == [state |-> "pending", value |-> Null]

settleOverwriting(p, state, value) == [state |-> state, value |-> value]

settle(p, state, value) ==
    IF p.state = "pending" THEN [state |-> state, value |-> value] ELSE p

resolve(value) ==
    /\ promise' = settle(promise, "fulfilled", value)
    /\ calls' = Append(calls, [fn |-> "resolve", value |-> value])

reject(error) ==
    /\ promise' = settle(promise, "rejected", error)
    /\ calls' = Append(calls, [fn |-> "reject", value |-> error])

Settled == promise.state # "pending"

(***************************************************************************)
(* spawnCommand (runner.ts 37-52).                                         *)
(***************************************************************************)
spawnError(outcome) ==
    IF outcome = "binaryNotFound"
    THEN BinaryNotFoundError(<<"7za">>)
    ELSE ZipWrapperError(<<"Failed to spawn 7-Zip process: ", "EACCES">>)

(***************************************************************************)
(* parseProgress (runner.ts 145-157): the callback invocations one chunk   *)
(* produces, in order.                                                     *)
(***************************************************************************)
\* the end of the run of digits that starts at i
RECURSIVE digitsEnd(_, _)
digitsEnd(s, i) ==
    IF i + 1 <= Len(s) /\ IsDigit(s[i + 1]) THEN digitsEnd(s, i + 1) ELSE i

\* output.match(/(\d+)%/): the start of the leftmost match, 0 when none
percentMatch(s) ==
    LET hits == {i \in 1..Len(s) :
                   /\ IsDigit(s[i])
                   /\ digitsEnd(s, i) + 1 <= Len(s)
                   /\ s[digitsEnd(s, i) + 1] = "%"}
    IN  IF hits = {} THEN 0 ELSE CHOOSE i \in hits : \A j \in hits : i <= j

LineTerminators == {"\n", "\r"}

\* the last index of the line that holds index i
RECURSIVE lineEnd(_, _)
lineEnd(s, i) ==
    IF i + 1 <= Len(s) /\ s[i + 1] \notin LineTerminators
    THEN lineEnd(s, i + 1) ELSE i

\* output.match(/- (.+)$/m): the start of the leftmost match, 0 when none
fileMatch(s) ==
    LET hits == {i \in 1..Len(s) :
                   /\ s[i] = "-"
                   /\ i + 2 <= Len(s)
                   /\ s[i + 1] = " "
                   /\ s[i + 2] \notin LineTerminators}
    IN  IF hits = {} THEN 0 ELSE CHOOSE i \in hits : \A j \in hits : i <= j

parseProgress(output) ==
    LET p == percentMatch(output)
        f == fileMatch(output)
    IN  (IF p > 0 THEN <<[percent |-> digitsValue(output, p, 0)]>> ELSE <<>>)
        \o (IF f > 0
            THEN <<[file |-> trim(SubSeq(output, f + 2, lineEnd(output, f + 2)))]>>
            ELSE <<>>)

(***************************************************************************)
(* run (runner.ts 57-140): the promise executor and its four callbacks.    *)
(***************************************************************************)
\* a handler that leaves the timer pending
clearTimerKeeping == UNCHANGED timerArmed

\* clearTimeout(timeoutId) under `if (timeoutId)`
clearTimer == timerArmed' = (IF timeoutId THEN FALSE ELSE timerArmed)

\* runner.ts 62: options?.timeout ?? DEFAULT_TIMEOUT_MS
timeoutOfFalsy(t) == IF t = Null \/ t[1] = 0 THEN DEFAULT_TIMEOUT_MS ELSE t[1]

timeoutOf(t) == IF t = Null THEN DEFAULT_TIMEOUT_MS ELSE t[1]

\* runner.ts 62-85: the executor, up to the registration of the handlers; the
\* options it was called with are kept in input
InvokeRun(a, t, prog, ap, outcome) ==
    /\ op = "idle"
    /\ op' = "run"
    /\ args' = a
    /\ timeout' = timeoutOf(t)
    /\ input' = [timeout |-> t]
    /\ onProgress' = prog
    /\ archivePath' = ap
    /\ IF outcome # "ok"
       THEN /\ reject(spawnError(outcome))
            /\ UNCHANGED <<childState, timeoutId, timerArmed>>
       ELSE /\ childState' = "alive"
            /\ timeoutId' = (timeout' > 0)
            /\ timerArmed' = (timeout' > 0)
            /\ UNCHANGED <<promise, calls>>
    /\ UNCHANGED <<killed, stdoutChunks, stderrChunks, exitCode, signals,
                   errorEmitted, stdoutEnded, sourceErrored, crashed, progressLog>>
    /\ UNCHANGED <<fn, result>>
    /\ UNCHANGED binaryVars

\* runner.ts 80-84: the timer callback
onTimeoutNoReject ==
    /\ killed' = TRUE
    /\ signals' = signals + 1
    /\ UNCHANGED <<promise, calls>>

onTimeout ==
    /\ killed' = TRUE
    /\ signals' = signals + 1
    /\ reject(TimeoutError(timeout, <<"7za", args[1]>>))

TimerFire ==
    /\ op = "run"
    /\ timerArmed
    /\ timerArmed' = FALSE
    /\ onTimeout
    /\ UNCHANGED <<stdoutChunks, stderrChunks, progressLog, crashed>>
    /\ UNCHANGED <<childState, exitCode, errorEmitted, stdoutEnded, sourceErrored>>
    /\ UNCHANGED cfgVars
    /\ UNCHANGED pureVars
    /\ UNCHANGED binaryVars

\* runner.ts 88-95: child.stdout 'data'
onStdoutData(chunk) ==
    /\ stdoutChunks' = Append(stdoutChunks, chunk)
    /\ progressLog' = (IF onProgress THEN progressLog \o parseProgress(chunk)
                       ELSE progressLog)

\* runner.ts 98-100: child.stderr 'data'
onStderrData(chunk) == stderrChunks' = Append(stderrChunks, chunk)

\* runner.ts 115-121: the ArchiveResult; the command string `7za ${args.join(' ')}`
\* is kept as its list of space-separated words
ArchiveResultWarningOk(code) ==
    [success  |-> (code = Num(EXIT_SUCCESS) \/ code = Num(EXIT_WARNING)),
     command  |-> <<"7za">> \o args,
     stdout   |-> concat(stdoutChunks),
     stderr   |-> concat(stderrChunks),
     exitCode |-> code]

ArchiveResult(code) ==
    [success  |-> (code = Num(EXIT_SUCCESS)),
     command  |-> <<"7za">> \o args,
     stdout   |-> concat(stdoutChunks),
     stderr   |-> concat(stderrChunks),
     exitCode |-> code]

\* Object.assign(error, { result })
withResult(error, res) == error @@ [result |-> res]

\* runner.ts 103-130: child 'close'
onCloseIgnoringKilled(code) ==
    /\ clearTimer
    /\ IF code = Num(EXIT_SUCCESS) \/ code = Num(EXIT_WARNING)
       THEN resolve(ArchiveResult(code))
       ELSE reject(withResult(
                parseZipWrapperError(concat(stderrChunks), concat(stdoutChunks),
                                     code, archivePath),
                ArchiveResult(code)))

onCloseSuccessOnly(code) ==
    /\ clearTimer
    /\ IF killed
       THEN UNCHANGED <<promise, calls>>
       ELSE IF code = Num(EXIT_SUCCESS)
       THEN resolve(ArchiveResult(code))
       ELSE reject(withResult(
                parseZipWrapperError(concat(stderrChunks), concat(stdoutChunks),
                                     code, archivePath),
                ArchiveResult(code)))

onClose(code) ==
    /\ clearTimer
    /\ IF killed
       THEN UNCHANGED <<promise, calls>>
       ELSE IF code = Num(EXIT_SUCCESS) \/ code = Num(EXIT_WARNING)
       THEN resolve(ArchiveResult(code))
       ELSE reject(withResult(
                parseZipWrapperError(concat(stderrChunks), concat(stdoutChunks),
                                     code, archivePath),
                ArchiveResult(code)))

\* runner.ts 133-138: child 'error'
onErrorKeepingTimer(message) ==
    /\ UNCHANGED timerArmed
    /\ reject(ZipWrapperError(<<"Failed to execute 7-Zip: ", message>>))

onError(message) ==
    /\ clearTimer
    /\ reject(ZipWrapperError(<<"Failed to execute 7-Zip: ", message>>))

RunStdoutData(chunk) ==
    /\ op = "run"
    /\ childState = "alive"
    /\ Len(stdoutChunks) < MaxStdoutChunks
    /\ onStdoutData(chunk)
    /\ UNCHANGED <<timerArmed, killed, stderrChunks, crashed, promise, calls>>
    /\ UNCHANGED childVars
    /\ UNCHANGED cfgVars
    /\ UNCHANGED pureVars
    /\ UNCHANGED binaryVars

RunStderrData(chunk) ==
    /\ op = "run"
    /\ childState = "alive"
    /\ Len(stderrChunks) < MaxStderrChunks
    /\ onStderrData(chunk)
    /\ UNCHANGED <<timerArmed, killed, stdoutChunks, crashed, promise, calls,
                   progressLog>>
    /\ UNCHANGED childVars
    /\ UNCHANGED cfgVars
    /\ UNCHANGED pureVars
    /\ UNCHANGED binaryVars

\* 'close' is emitted once, after the process ended and its stdio streams closed
RunClose(code) ==
    /\ op = "run"
    /\ childState = "alive"
    /\ childState' = "closed"
    /\ exitCode' = code
    /\ onClose(code)
    /\ UNCHANGED <<killed, stdoutChunks, stderrChunks, crashed, progressLog>>
    /\ UNCHANGED <<signals, errorEmitted, stdoutEnded, sourceErrored>>
    /\ UNCHANGED cfgVars
    /\ UNCHANGED pureVars
    /\ UNCHANGED binaryVars

\* 'error': the process could not be spawned (asynchronously) or killed; the
\* 'close' event may or may not follow
RunError ==
    /\ op = "run"
    /\ childState = "alive"
    /\ ~errorEmitted
    /\ errorEmitted' = TRUE
    /\ onError("ENOENT")
    /\ UNCHANGED <<killed, stdoutChunks, stderrChunks, crashed, progressLog>>
    /\ UNCHANGED <<childState, exitCode, signals, stdoutEnded, sourceErrored>>
    /\ UNCHANGED cfgVars
    /\ UNCHANGED pureVars
    /\ UNCHANGED binaryVars

(***************************************************************************)
(* buildArgs (runner.ts 351-373).  An argument is a text; an empty or      *)
(* absent archive is left out, and so is an empty or absent files list.    *)
(***************************************************************************)
\* the archive path pushed before the switches
buildArgsArchiveFirst(command, switches, archive, files) ==
    <<command>> \o (IF archive # <<>> THEN <<archive>> ELSE <<>>)
        \o switches \o files

buildArgs(command, switches, archive, files) ==
    <<command>> \o switches
        \o (IF archive # <<>> THEN <<archive>> ELSE <<>>)
        \o files

(***************************************************************************)
(* extractToStream / extractToBuffer (commands.ts 81-119).  The child gets *)
(* no 'close' and no 'error' listener: only its stdout stream is listened  *)
(* to.                                                                     *)
(***************************************************************************)
InvokeExtractToBuffer(exists, outcome) ==
    /\ op = "idle"
    /\ op' = "extractToBuffer"
    /\ args' = buildArgs(<<"x">>, <<<<"-", "s", "o">>, <<"-", "y">>>>, PATH_archive,
                          <<<<"f", ".", "t", "x", "t">>>>)
    /\ archivePath' = PATH_archive
    /\ IF ~exists
       THEN /\ reject(ArchiveNotFoundError(PATH_archive))
            /\ UNCHANGED childState
       ELSE IF outcome # "ok"
       THEN /\ reject(spawnError(outcome))
            /\ UNCHANGED childState
       ELSE /\ childState' = "alive"
            /\ UNCHANGED <<promise, calls>>
    /\ UNCHANGED <<timeout, onProgress, timeoutId, timerArmed, killed,
                   stdoutChunks, stderrChunks, exitCode, signals, errorEmitted,
                   stdoutEnded, sourceErrored, crashed, progressLog>>
    /\ UNCHANGED pureVars
    /\ UNCHANGED binaryVars

\* commands.ts 115: stream 'data'
onStreamData(chunk) == stdoutChunks' = Append(stdoutChunks, chunk)

\* commands.ts 116: stream 'error'
onStreamError(err) == reject(err)

\* commands.ts 117: stream 'end'
onStreamEnd == resolve(concat(stdoutChunks))

ExtractStdoutData(chunk) ==
    /\ op = "extractToBuffer"
    /\ childState = "alive"
    /\ ~stdoutEnded
    /\ ~crashed
    /\ Len(stdoutChunks) < MaxStdoutChunks
    /\ onStreamData(chunk)
    /\ UNCHANGED <<timerArmed, killed, stderrChunks, crashed, promise, calls,
                   progressLog>>
    /\ UNCHANGED childVars
    /\ UNCHANGED cfgVars
    /\ UNCHANGED pureVars
    /\ UNCHANGED binaryVars

\* the child's stdout reaches end of file: the child closed it or ended
ExtractStdoutEnd ==
    /\ op = "extractToBuffer"
    /\ childState = "alive"
    /\ ~stdoutEnded
    /\ ~crashed
    /\ stdoutEnded' = TRUE
    /\ onStreamEnd
    /\ UNCHANGED <<timerArmed, killed, stdoutChunks, stderrChunks, crashed,
                   progressLog>>
    /\ UNCHANGED <<childState, exitCode, signals, errorEmitted, sourceErrored>>
    /\ UNCHANGED cfgVars
    /\ UNCHANGED pureVars
    /\ UNCHANGED binaryVars

\* a read error on the pipe destroys the stream: no 'end' follows
ExtractStreamError ==
    /\ op = "extractToBuffer"
    /\ childState = "alive"
    /\ ~stdoutEnded
    /\ ~crashed
    /\ stdoutEnded' = TRUE
    /\ onStreamError([name |-> "Error", code |-> "EIO"])
    /\ UNCHANGED <<timerArmed, killed, stdoutChunks, stderrChunks, crashed,
                   progressLog>>
    /\ UNCHANGED <<childState, exitCode, signals, errorEmitted, sourceErrored>>
    /\ UNCHANGED cfgVars
    /\ UNCHANGED pureVars
    /\ UNCHANGED binaryVars

\* the child's 'close', after its stdout closed: nothing listens to it
ExtractClose(code) ==
    /\ op = "extractToBuffer"
    /\ childState = "alive"
    /\ stdoutEnded
    /\ ~crashed
    /\ childState' = "closed"
    /\ exitCode' = code
    /\ UNCHANGED <<timerArmed, killed, stdoutChunks, stderrChunks, crashed,
                   promise, calls, progressLog>>
    /\ UNCHANGED <<signals, errorEmitted, stdoutEnded, sourceErrored>>
    /\ UNCHANGED cfgVars
    /\ UNCHANGED pureVars
    /\ UNCHANGED binaryVars

\* the child's 'error' with no listener: the emitter throws, an uncaught exception
ExtractChildError ==
    /\ op = "extractToBuffer"
    /\ childState = "alive"
    /\ ~errorEmitted
    /\ ~crashed
    /\ errorEmitted' = TRUE
    /\ crashed' = TRUE
    /\ UNCHANGED <<timerArmed, killed, stdoutChunks, stderrChunks, promise,
                   calls, progressLog>>
    /\ UNCHANGED <<childState, exitCode, signals, stdoutEnded, sourceErrored>>
    /\ UNCHANGED cfgVars
    /\ UNCHANGED pureVars
    /\ UNCHANGED binaryVars

(***************************************************************************)
(* addFromStream (commands.ts 42-76).                                      *)
(***************************************************************************)
InvokeAddFromStream(outcome) ==
    /\ op = "idle"
    /\ op' = "addFromStream"
    /\ args' = buildArgs(<<"a">>, <<<<"-", "s", "i", "f", ".", "t", "x", "t">>, <<"-", "y">>>>,
                          PATH_archive, <<>>)
    /\ archivePath' = PATH_archive
    /\ IF outcome # "ok"
       THEN /\ reject(spawnError(outcome))
            /\ UNCHANGED childState
       ELSE /\ childState' = "alive"
            /\ UNCHANGED <<promise, calls>>
    /\ UNCHANGED <<timeout, onProgress, timeoutId, timerArmed, killed,
                   stdoutChunks, stderrChunks, exitCode, signals, errorEmitted,
                   stdoutEnded, sourceErrored, crashed, progressLog>>
    /\ UNCHANGED pureVars
    /\ UNCHANGED binaryVars

\* commands.ts 65-68: child 'close'
onAddCloseWarningOk(code) ==
    IF code = Num(0) \/ code = Num(1)
    THEN resolve(Null)
    ELSE reject([name |-> "Error",
                 message |-> <<"7-Zip exited with code ", code>>])

onAddClose(code) ==
    IF code = Num(0)
    THEN resolve(Null)
    ELSE reject([name |-> "Error",
                 message |-> <<"7-Zip exited with code ", code>>])

\* commands.ts 70: child 'error'
onAddChildError(err) == reject(err)

\* commands.ts 71: sourceStream 'error'
onSourceError(err) == reject(err)

AddClose(code) ==
    /\ op = "addFromStream"
    /\ childState = "alive"
    /\ childState' = "closed"
    /\ exitCode' = code
    /\ onAddClose(code)
    /\ UNCHANGED <<timerArmed, killed, stdoutChunks, stderrChunks, crashed,
                   progressLog>>
    /\ UNCHANGED <<signals, errorEmitted, stdoutEnded, sourceErrored>>
    /\ UNCHANGED cfgVars
    /\ UNCHANGED pureVars
    /\ UNCHANGED binaryVars

AddChildError ==
    /\ op = "addFromStream"
    /\ childState = "alive"
    /\ ~errorEmitted
    /\ errorEmitted' = TRUE
    /\ onAddChildError([name |-> "Error", code |-> "ENOENT"])
    /\ UNCHANGED <<timerArmed, killed, stdoutChunks, stderrChunks, crashed,
                   progressLog>>
    /\ UNCHANGED <<childState, exitCode, signals, stdoutEnded, sourceErrored>>
    /\ UNCHANGED cfgVars
    /\ UNCHANGED pureVars
    /\ UNCHANGED binaryVars

AddSourceError ==
    /\ op = "addFromStream"
    /\ childState # "none"
    /\ ~sourceErrored
    /\ sourceErrored' = TRUE
    /\ onSourceError([name |-> "Error", code |-> "ESOURCE"])
    /\ UNCHANGED <<timerArmed, killed, stdoutChunks, stderrChunks, crashed,
                   progressLog>>
    /\ UNCHANGED <<childState, exitCode, signals, errorEmitted, stdoutEnded>>
    /\ UNCHANGED cfgVars
    /\ UNCHANGED pureVars
    /\ UNCHANGED binaryVars

(***************************************************************************)
(* The process specification: one operation is invoked, then the child,    *)
(* the timer and the streams deliver their events in any order.            *)
(***************************************************************************)
ProcessInit ==
    /\ op = "idle"
    /\ args = <<>>
    /\ timeout = 0
    /\ onProgress = FALSE
    /\ archivePath = <<>>
    /\ timeoutId = FALSE
    /\ timerArmed = FALSE
    /\ killed = FALSE
    /\ stdoutChunks = <<>>
    /\ stderrChunks = <<>>
    /\ childState = "none"
    /\ exitCode = Null
    /\ signals = 0
    /\ errorEmitted = FALSE
    /\ stdoutEnded = FALSE
    /\ sourceErrored = FALSE
    /\ crashed = FALSE
    /\ promise = PendingPromise
    /\ calls = <<>>
    /\ progressLog = <<>>

\* binary.ts 38-39: nothing is cached when the module is loaded (the
\* specifications of the runner and of the parsers leave the locator alone)
BinaryIdle ==
    /\ cachedBinaryPath = <<>>
    /\ cachedBinaryInfo = <<>>
    /\ host = <<>>
    /\ disk = {}
    /\ downloads = <<>>
    /\ fetches = 0
    /\ volume = <<>>
    /\ streams = <<>>
    /\ instances = <<>>

Init ==
    /\ ProcessInit
    /\ BinaryIdle
    /\ fn = "none"
    /\ input = Null
    /\ result = Null

Next ==
    \/ \E a \in ArgsPool, t \in TimeoutOptions, prog \in BOOLEAN,
          ap \in ArchivePathOptions, outcome \in SpawnOutcomes :
            InvokeRun(a, t, prog, ap, outcome)
    \/ TimerFire
    \/ \E chunk \in StdoutChunkPool : RunStdoutData(chunk)
    \/ \E chunk \in StderrChunkPool : RunStderrData(chunk)
    \/ \E code \in ExitCodes : RunClose(code)
    \/ RunError
    \/ \E exists \in BOOLEAN, outcome \in SpawnOutcomes :
            InvokeExtractToBuffer(exists, outcome)
    \/ \E chunk \in StdoutChunkPool : ExtractStdoutData(chunk)
    \/ ExtractStdoutEnd
    \/ ExtractStreamError
    \/ \E code \in ExitCodes : ExtractClose(code)
    \/ ExtractChildError
    \/ \E outcome \in SpawnOutcomes : InvokeAddFromStream(outcome)
    \/ \E code \in ExitCodes : AddClose(code)
    \/ AddChildError
    \/ AddSourceError

Spec == Init /\ [][Next]_vars

\* The event loop runs a timer that is due: an armed timer fires unless it is
\* cleared first.  Nothing obliges the child to end.
FairSpec == Spec /\ WF_vars(TimerFire)

(***************************************************************************)
(* Properties of run.                                                      *)
(***************************************************************************)
Fulfilled == promise.state = "fulfilled"
Rejected == promise.state = "rejected"
SpawnThrew == op # "idle" /\ childState = "none"

\* what the first call of resolve / reject asked for
FirstCallOutcome ==
    [state |-> IF calls[1].fn = "resolve" THEN "fulfilled" ELSE "rejected",
     value |-> calls[1].value]

\* C1: the caller of run receives at most one terminal outcome: once the
\* promise is settled no later event (data, timeout, close, error) changes it,
\* and what it holds is the outcome of the first resolve / reject call.
C1_SingleOutcome ==
    /\ [](op = "run" /\ Settled => calls # <<>> /\ promise = FirstCallOutcome)
    /\ [][op = "run" /\ Settled => promise' = promise]_vars

\* C1 witness: a second terminal call was made on a settled run (a 'close'
\* after an 'error', or an 'error' after the timeout) and the first stands.
C1_Witness ==
    /\ op = "run"
    /\ Len(calls) >= 2
    /\ calls[2] # calls[1]
    /\ promise = FirstCallOutcome

\* C2 (as claimed): every invocation of run eventually delivers a terminal
\* outcome, whatever the child does and whatever the timeout.
C2_AlwaysSettles == (op = "run") ~> Settled

\* C2 (amended): a run whose timeout is positive eventually delivers a
\* terminal outcome whatever the child does; a run whose timeout is disabled
\* (not positive) delivers one once the child closes or emits 'error', or when
\* spawning threw.
C2_SettlesWithTimer ==
    (op = "run" /\ (timeout > 0 \/ childState = "closed" \/ errorEmitted
                    \/ SpawnThrew))
        ~> Settled

\* C2 witness: the child never closed, and the timeout delivered the outcome.
C2_Witness ==
    /\ op = "run"
    /\ timeout > 0
    /\ childState = "alive"
    /\ ~errorEmitted
    /\ Rejected
    /\ promise.value.name = "TimeoutError"

\* what the 'close' handler is to deliver for the closed child of this state
ExpectedResult ==
    [success  |-> (exitCode = Num(0)),
     command  |-> <<"7za">> \o args,
     stdout   |-> concat(stdoutChunks),
     stderr   |-> concat(stderrChunks),
     exitCode |-> exitCode]

ExpectedCloseOutcome ==
    IF exitCode \in {Num(0), Num(1)}
    THEN [state |-> "fulfilled", value |-> ExpectedResult]
    ELSE [state |-> "rejected",
          value |-> parseZipWrapperError(concat(stderrChunks),
                                         concat(stdoutChunks), exitCode,
                                         archivePath)
                    @@ [result |-> ExpectedResult]]

\* C3 (as claimed): when the child closes without a prior timeout, run
\* resolves with the Result iff the exit code is 0 or 1, and otherwise fails
\* with the classified error that carries the Result.
C3_CloseOutcome ==
    (op = "run" /\ childState = "closed" /\ ~killed)
        => promise = ExpectedCloseOutcome

\* C3 (amended): the same, when the child closes without a prior timeout and
\* without a prior 'error' event.
C3_CloseOutcomeNoError ==
    (op = "run" /\ childState = "closed" /\ ~killed /\ ~errorEmitted)
        => promise = ExpectedCloseOutcome

\* C3 witness: exit code 1 with clean stderr resolved with a Result.
C3_Witness ==
    /\ op = "run"
    /\ childState = "closed"
    /\ ~killed
    /\ ~errorEmitted
    /\ exitCode = Num(1)
    /\ stderrChunks = <<>>
    /\ Fulfilled
    /\ promise.value.exitCode = Num(1)

\* the step in which the timer callback runs
TimerExpires == ~killed /\ killed'

\* C4: when the timeout T > 0 expires before the child closed or emitted
\* 'error', run sends one SIGTERM, sets killed and rejects with
\* TimeoutError(T, "7za <verb>"); a later 'close' makes no resolve / reject
\* call and the promise keeps the TimeoutError.
C4_TimeoutOwnsOutcome ==
    /\ [](op = "run" /\ killed =>
            /\ Rejected
            /\ promise.value = TimeoutError(timeout, <<"7za", args[1]>>))
    /\ [][/\ TimerExpires =>
                /\ timeout > 0
                /\ childState = "alive" /\ ~errorEmitted
                /\ signals' = signals + 1
                /\ ~Settled
                /\ promise' = [state |-> "rejected",
                               value |-> TimeoutError(timeout, <<"7za", args[1]>>)]
          /\ (killed /\ childState = "alive" /\ childState' = "closed") =>
                /\ calls' = calls
                /\ promise' = promise]_vars

\* C4 witness: the child closed after the timeout had fired.
C4_Witness ==
    /\ op = "run"
    /\ killed
    /\ childState = "closed"
    /\ signals = 1
    /\ promise.value.name = "TimeoutError"
    /\ promise.value.timeoutMs = 50

\* the callback invocations the stdout chunks call for, chunk by chunk
RECURSIVE ProgressOf(_)
ProgressOf(chunks) ==
    IF chunks = <<>> THEN <<>>
    ELSE parseProgress(Head(chunks)) \o ProgressOf(Tail(chunks))

\* C5 (as claimed): progress events are delivered in the order of their
\* stdout chunks, and none is delivered once the run has resolved or rejected.
C5_ProgressBeforeOutcome ==
    /\ [](op = "run" /\ onProgress => progressLog = ProgressOf(stdoutChunks))
    /\ [][op = "run" /\ Settled => progressLog' = progressLog]_vars

\* C6 (as claimed): when the child ended with an exit code outside 0/1, the
\* operation that started it (run, addFromStream, extractToBuffer) has failed.
C6_ChildFailureSurfaces ==
    (childState = "closed" /\ exitCode \notin {Num(0), Num(1)}) => Rejected

(***************************************************************************)
(* Specifications of the pure functions: Init draws the input, the one     *)
(* action applies the function and keeps what it returned.                 *)
(***************************************************************************)
\* a returned value (Null: nothing returned yet)
Some(v) == <<v>>

RECURSIVE SeqsUpTo(_, _)
\* the sequences of at most n elements of S
SeqsUpTo(S, n) ==
    IF n = 0 THEN {<<>>}
    ELSE LET shorter == SeqsUpTo(S, n - 1)
         IN  shorter \cup {Append(s, x) : s \in shorter, x \in S}

(***************************************************************************)
(* The error classifier under test.                                        *)
(***************************************************************************)
FRAG_wrong_password ==
    <<"E", "R", "R", "O", "R", ":", " ", "W", "r", "o", "n", "g", " ", "p", "a", "s", "s", "w", "o", "r", "d", "\n">>
FRAG_incorrect_password ==
    <<"I", "n", "c", "o", "r", "r", "e", "c", "t", " ", "P", "a", "s", "s", "w", "o", "r", "d">>
FRAG_enter_password ==
    <<"E", "n", "t", "e", "r", " ", "p", "a", "s", "s", "w", "o", "r", "d">>
FRAG_password_is_required ==
    <<"P", "a", "s", "s", "w", "o", "r", "d", " ", "i", "s", " ", "r", "e", "q", "u", "i", "r", "e", "d">>
FRAG_encrypted ==
    <<"E", "n", "c", "r", "y", "p", "t", "e", "d", " ", "=", " ", "+">>
FRAG_data_error ==
    <<"D", "a", "t", "a", " ", "E", "r", "r", "o", "r">>
FRAG_crc_failed ==
    <<"C", "R", "C", " ", "F", "a", "i", "l", "e", "d">>
FRAG_headers_error ==
    <<"H", "e", "a", "d", "e", "r", "s", " ", "E", "r", "r", "o", "r">>
FRAG_unexpected_end ==
    <<"U", "n", "e", "x", "p", "e", "c", "t", "e", "d", " ", "e", "n", "d">>
FRAG_cannot_find_archive ==
    <<"C", "a", "n", "n", "o", "t", " ", "f", "i", "n", "d", " ", "a", "r", "c", "h", "i", "v", "e">>
FRAG_cannot_open ==
    <<"c", "a", "n", "n", "o", "t", " ", "o", "p", "e", "n">>
FRAG_wrong ==
    <<"w", "r", "o", "n", "g", " ">>
FRAG_password ==
    <<"p", "a", "s", "s", "w", "o", "r", "d">>
FRAG_blank ==
    <<" ", "\n">>
FRAG_fatal ==
    <<" ", "f", "a", "t", "a", "l", " ", "\n">>

Fragments ==
    {FRAG_wrong_password, FRAG_incorrect_password,
     FRAG_enter_password, FRAG_password_is_required,
     FRAG_encrypted, FRAG_data_error, FRAG_crc_failed,
     FRAG_headers_error, FRAG_unexpected_end,
     FRAG_cannot_find_archive, FRAG_cannot_open, FRAG_wrong,
     FRAG_password, FRAG_blank, FRAG_fatal}

ClassifyInputs ==
    [stderr      : {concat(fs) : fs \in SeqsUpTo(Fragments, MaxFrags)},
     stdout      : Fragments \cup {<<>>},
     exitCode    : {Num(EXIT_FATAL_ERROR), Null},
     archivePath : ArchivePathOptions]

ClassifyInit ==
    /\ ProcessInit
    /\ BinaryIdle
    /\ fn = "parseZipWrapperError"
    /\ input \in ClassifyInputs
    /\ result = Null

Classify ==
    /\ fn = "parseZipWrapperError"
    /\ result = Null
    /\ result' = Some(parseZipWrapperError(input.stderr, input.stdout,
                                           input.exitCode, input.archivePath))
    /\ UNCHANGED <<fn, input>>
    /\ UNCHANGED <<timerArmed, killed, stdoutChunks, stderrChunks, crashed,
                   promise, calls, progressLog>>
    /\ UNCHANGED childVars
    /\ UNCHANGED cfgVars
    /\ UNCHANGED binaryVars

ClassifyNext == Classify

ClassifySpec == ClassifyInit /\ [][ClassifyNext]_vars

(***************************************************************************)
(* parseListOutput (runner.ts 162-247).                                    *)
(***************************************************************************)
\* the string literals of the parsers (runner.ts 185-297)
RunnerText ==
    [Path |-> <<"P", "a", "t", "h", " ", "=", " ">>,
     Size |-> <<"S", "i", "z", "e", " ", "=", " ">>,
     Packed_Size |-> <<"P", "a", "c", "k", "e", "d", " ", "S", "i", "z", "e", " ", "=", " ">>,
     Modified |-> <<"M", "o", "d", "i", "f", "i", "e", "d", " ", "=", " ">>,
     Attributes |-> <<"A", "t", "t", "r", "i", "b", "u", "t", "e", "s", " ", "=", " ">>,
     CRC |-> <<"C", "R", "C", " ", "=", " ">>,
     Method |-> <<"M", "e", "t", "h", "o", "d", " ", "=", " ">>,
     Encrypted |-> <<"E", "n", "c", "r", "y", "p", "t", "e", "d", " ", "=", " ">>,
     error |-> <<"e", "r", "r", "o", "r">>,
     failed |-> <<"f", "a", "i", "l", "e", "d">>,
     cannot |-> <<"c", "a", "n", "n", "o", "t">>,
     crc_failed |-> <<"c", "r", "c", " ", "f", "a", "i", "l", "e", "d">>,
     Everything_is_Ok |-> <<"E", "v", "e", "r", "y", "t", "h", "i", "n", "g", " ", "i", "s", " ", "O", "k">>,
     for_data |-> <<"f", "o", "r", " ", "d", "a", "t", "a", ":">>]

\* new Date(): the current instant
DateNow == <<"Date.now">>
\* new Date(text)
DateOf(text) == <<"Date", text>>

\* runner.ts 191-200: the entry a 'Path = ' line starts
newEntry(path) ==
    [path        |-> path,
     size        |-> 0,
     packedSize  |-> 0,
     modified    |-> DateNow,
     attributes  |-> <<>>,
     crc         |-> <<>>,
     method      |-> <<>>,
     isDirectory |-> FALSE,
     encrypted   |-> "undefined"]

\* runner.ts 210: attributes.includes('D')
isDirectoryOfLeading(attributes) == startsWith(attributes, <<"D">>)

isDirectoryOf(attributes) == includes(attributes, <<"D">>)

\* runner.ts 202-217: a line other than 'Path = ' while an entry is open
assignField(e, trimmed) ==
    IF startsWith(trimmed, RunnerText.Size)
    THEN [e EXCEPT !.size = parseIntOr0(substring(trimmed, 7))]
    ELSE IF startsWith(trimmed, RunnerText.Packed_Size)
    THEN [e EXCEPT !.packedSize = parseIntOr0(substring(trimmed, 14))]
    ELSE IF startsWith(trimmed, RunnerText.Modified)
    THEN [e EXCEPT !.modified = DateOf(substring(trimmed, 11))]
    ELSE IF startsWith(trimmed, RunnerText.Attributes)
    THEN [e EXCEPT !.attributes = substring(trimmed, 13),
                   !.isDirectory = isDirectoryOf(substring(trimmed, 13))]
    ELSE IF startsWith(trimmed, RunnerText.CRC)
    THEN [e EXCEPT !.crc = substring(trimmed, 6)]
    ELSE IF startsWith(trimmed, RunnerText.Method)
    THEN [e EXCEPT !.method = substring(trimmed, 9)]
    ELSE IF startsWith(trimmed, RunnerText.Encrypted)
    THEN [e EXCEPT !.encrypted =
                     IF substring(trimmed, 12) = <<"+">> THEN "true" ELSE "false"]
    ELSE e

\* runner.ts 187-189: if (currentEntry?.path) entries.push(currentEntry)
pushIfPath(entries, currentEntry) ==
    IF currentEntry # Null /\ currentEntry[1].path # <<>>
    THEN Append(entries, currentEntry[1])
    ELSE entries

\* runner.ts 221-224: the last entry, after the loop
flushLastForgotten(entries, currentEntry) == entries

flushLast(entries, currentEntry) == pushIfPath(entries, currentEntry)

RECURSIVE parseLines(_, _, _, _)
\* runner.ts 182-224: the loop over the lines, then the last entry
parseLines(lines, i, entries, currentEntry) ==
    IF i > Len(lines) THEN flushLast(entries, currentEntry)
    ELSE LET trimmed == trim(lines[i])
         IN  IF startsWith(trimmed, RunnerText.Path)
             THEN parseLines(lines, i + 1, pushIfPath(entries, currentEntry),
                             Some(newEntry(substring(trimmed, 7))))
             ELSE IF currentEntry # Null
             THEN parseLines(lines, i + 1, entries,
                             Some(assignField(currentEntry[1], trimmed)))
             ELSE parseLines(lines, i + 1, entries, currentEntry)

\* totalPackedSize / totalSize, kept as the exact quotient
Quotient(n, d) == [num |-> n, den |-> d]
Zero == [num |-> 0, den |-> 1]

RECURSIVE statsLoopAll(_, _, _)
statsLoopAll(entries, i, acc) ==
    IF i > Len(entries) THEN acc
    ELSE statsLoopAll(entries, i + 1,
            IF entries[i].isDirectory
            THEN [acc EXCEPT !.dirCount = @ + 1,
                             !.totalSize = @ + entries[i].size,
                             !.totalPackedSize = @ + entries[i].packedSize]
            ELSE [acc EXCEPT !.fileCount = @ + 1,
                             !.totalSize = @ + entries[i].size,
                             !.totalPackedSize = @ + entries[i].packedSize])

RECURSIVE statsLoop(_, _, _)
\* runner.ts 227-235
statsLoop(entries, i, acc) ==
    IF i > Len(entries) THEN acc
    ELSE statsLoop(entries, i + 1,
            IF entries[i].isDirectory
            THEN [acc EXCEPT !.dirCount = @ + 1]
            ELSE [acc EXCEPT !.fileCount = @ + 1,
                             !.totalSize = @ + entries[i].size,
                             !.totalPackedSize = @ + entries[i].packedSize])

\* runner.ts 244
ratioOf(totalSize, totalPackedSize) ==
    IF totalSize > 0 THEN Quotient(totalPackedSize, totalSize) ELSE Zero

parseListOutput(output) ==
    LET entries == parseLines(split(output), 1, <<>>, Null)
        totals  == statsLoop(entries, 1,
                             [totalSize |-> 0, totalPackedSize |-> 0,
                              fileCount |-> 0, dirCount |-> 0])
    IN  [entries |-> entries,
         stats   |-> [totalSize       |-> totals.totalSize,
                      totalPackedSize |-> totals.totalPackedSize,
                      fileCount       |-> totals.fileCount,
                      dirCount        |-> totals.dirCount,
                      ratio           |-> ratioOf(totals.totalSize,
                                                  totals.totalPackedSize)]]

(***************************************************************************)
(* The listing parser under test: the input is the lines the executable    *)
(* printed, the captured stdout is those lines joined by newlines.         *)
(***************************************************************************)
LINE_path_file ==
    <<"P", "a", "t", "h", " ", "=", " ", "a", ".", "t", "x", "t">>
LINE_path_dir ==
    <<"P", "a", "t", "h", " ", "=", " ", "d">>
LINE_size ==
    <<"S", "i", "z", "e", " ", "=", " ", "1", "2">>
LINE_size_padded ==
    <<" ", " ", "S", "i", "z", "e", " ", "=", " ", "3", " ", "\r">>
LINE_size_nan ==
    <<"S", "i", "z", "e", " ", "=", " ", "-">>
LINE_packed ==
    <<"P", "a", "c", "k", "e", "d", " ", "S", "i", "z", "e", " ", "=", " ", "5">>
LINE_attr_dir ==
    <<"A", "t", "t", "r", "i", "b", "u", "t", "e", "s", " ", "=", " ", "D">>
LINE_attr_file ==
    <<"A", "t", "t", "r", "i", "b", "u", "t", "e", "s", " ", "=", " ", "A">>
LINE_attr_ro_dir ==
    <<"A", "t", "t", "r", "i", "b", "u", "t", "e", "s", " ", "=", " ", "R", "D">>
LINE_crc ==
    <<"C", "R", "C", " ", "=", " ", "A", "B">>
LINE_method ==
    <<"M", "e", "t", "h", "o", "d", " ", "=", " ", "L", "Z">>
LINE_encrypted ==
    <<"E", "n", "c", "r", "y", "p", "t", "e", "d", " ", "=", " ", "+">>
LINE_modified ==
    <<"M", "o", "d", "i", "f", "i", "e", "d", " ", "=", " ", "2", "0", "2", "3">>
LINE_rule ==
    <<"-", "-", "-", "-">>

LinePool ==
    {LINE_path_file, LINE_path_dir, LINE_size, LINE_size_padded,
     LINE_size_nan, LINE_packed, LINE_attr_dir, LINE_attr_file,
     LINE_attr_ro_dir, LINE_crc, LINE_method, LINE_encrypted,
     LINE_modified, LINE_rule}

RECURSIVE joinLines(_)
\* lines.join('\n')
joinLines(lines) ==
    IF lines = <<>> THEN <<>>
    ELSE IF Len(lines) = 1 THEN lines[1]
    ELSE Head(lines) \o <<"\n">> \o joinLines(Tail(lines))

ListInputs == SeqsUpTo(LinePool, MaxLines)

ListInit ==
    /\ ProcessInit
    /\ BinaryIdle
    /\ fn = "parseListOutput"
    /\ input \in ListInputs
    /\ result = Null

ParseList ==
    /\ fn = "parseListOutput"
    /\ result = Null
    /\ result' = Some(parseListOutput(joinLines(input)))
    /\ UNCHANGED <<fn, input>>
    /\ UNCHANGED <<timerArmed, killed, stdoutChunks, stderrChunks, crashed,
                   promise, calls, progressLog>>
    /\ UNCHANGED childVars
    /\ UNCHANGED cfgVars
    /\ UNCHANGED binaryVars

ListNext == ParseList

ListSpec == ListInit /\ [][ListNext]_vars

(***************************************************************************)
(* Properties of parseZipWrapperError.                                     *)
(***************************************************************************)
\* the lower-cased stderr or the lower-cased stdout contains the phrase
InText(phrase) ==
    \/ includes(toLowerCase(input.stderr), phrase)
    \/ includes(toLowerCase(input.stdout), phrase)

Rule1 == InText(ErrorsText.wrong_password) \/ InText(ErrorsText.incorrect_password)
Rule2 == InText(ErrorsText.enter_password) \/ InText(ErrorsText.password_is_required)
             \/ InText(ErrorsText.encrypted)
Rule3 == InText(ErrorsText.data_error) \/ InText(ErrorsText.crc_failed)
             \/ InText(ErrorsText.headers_error) \/ InText(ErrorsText.unexpected_end)
Rule4 == (InText(ErrorsText.cannot_find_archive) \/ InText(ErrorsText.cannot_open))
             /\ input.archivePath # <<>>

ExpectedClass ==
    IF Rule1 THEN "WrongPasswordError"
    ELSE IF Rule2 THEN "PasswordRequiredError"
    ELSE IF Rule3 THEN "CorruptArchiveError"
    ELSE IF Rule4 THEN "ArchiveNotFoundError"
    ELSE "CompressionError"

Classified == fn = "parseZipWrapperError" /\ result # Null

\* C7: the class of the error is decided by the first rule, in the order 1-5,
\* whose phrase occurs in the lower-cased stderr or the lower-cased stdout
\* (rule 4 only with a known archive path); the password and not-found errors
\* carry the archive path, the fallback carries the trimmed stderr (the
\* placeholder when that is empty) and the exit code; output holding both
\* 'wrong password' and 'data error' is a WrongPassword.
C7_FirstMatchWins ==
    Classified =>
        LET e == result[1]
        IN  /\ e.name = ExpectedClass
            /\ e.name \in {"WrongPasswordError", "PasswordRequiredError",
                           "ArchiveNotFoundError"}
                  => e.archivePath = input.archivePath
            /\ e.name = "CompressionError"
                  => /\ e.exitCode = input.exitCode
                     /\ e.message = (IF trim(input.stderr) = <<>>
                                     THEN ErrorsText.Unknown_7Zip_error
                                     ELSE trim(input.stderr))
            /\ (InText(ErrorsText.wrong_password) /\ InText(ErrorsText.data_error))
                  => e.name = "WrongPasswordError"

\* C7 witness: output with both 'wrong password' and 'data error' was
\* classified, as WrongPassword.
C7_Witness ==
    /\ Classified
    /\ InText(ErrorsText.wrong_password)
    /\ InText(ErrorsText.data_error)
    /\ result[1].name = "WrongPasswordError"

(***************************************************************************)
(* Properties of parseListOutput.  The blocks of the input are read off    *)
(* its lines directly: block k runs from the k-th 'Path = ' line to the    *)
(* line before the next one.                                               *)
(***************************************************************************)
Listed == fn = "parseListOutput" /\ result # Null

PathLines == {i \in 1..Len(input) : startsWith(trim(input[i]), RunnerText.Path)}
BlockCount == Cardinality(PathLines)
PathLineAt(k) ==
    CHOOSE i \in PathLines : Cardinality({j \in PathLines : j < i}) = k - 1
BlockEnd(k) == IF k = BlockCount THEN Len(input) ELSE PathLineAt(k + 1) - 1

\* the lines of block k that start with the key
KeyLines(k, key) ==
    {i \in (PathLineAt(k) + 1)..BlockEnd(k) : startsWith(trim(input[i]), key)}

\* the value of the last such line
ValueIn(k, key) ==
    LET i == CHOOSE i \in KeyLines(k, key) : \A j \in KeyLines(k, key) : j <= i
    IN  substring(trim(input[i]), Len(key))

HasD(attributes) == \E j \in 1..Len(attributes) : attributes[j] = "D"

ExpectedEntry(k) ==
    [path        |-> substring(trim(input[PathLineAt(k)]), Len(RunnerText.Path)),
     size        |-> IF KeyLines(k, RunnerText.Size) = {} THEN 0
                     ELSE parseIntOr0(ValueIn(k, RunnerText.Size)),
     packedSize  |-> IF KeyLines(k, RunnerText.Packed_Size) = {} THEN 0
                     ELSE parseIntOr0(ValueIn(k, RunnerText.Packed_Size)),
     modified    |-> IF KeyLines(k, RunnerText.Modified) = {} THEN DateNow
                     ELSE DateOf(ValueIn(k, RunnerText.Modified)),
     attributes  |-> IF KeyLines(k, RunnerText.Attributes) = {} THEN <<>>
                     ELSE ValueIn(k, RunnerText.Attributes),
     crc         |-> IF KeyLines(k, RunnerText.CRC) = {} THEN <<>>
                     ELSE ValueIn(k, RunnerText.CRC),
     method      |-> IF KeyLines(k, RunnerText.Method) = {} THEN <<>>
                     ELSE ValueIn(k, RunnerText.Method),
     isDirectory |-> IF KeyLines(k, RunnerText.Attributes) = {} THEN FALSE
                     ELSE HasD(ValueIn(k, RunnerText.Attributes)),
     encrypted   |-> IF KeyLines(k, RunnerText.Encrypted) = {} THEN "undefined"
                     ELSE IF ValueIn(k, RunnerText.Encrypted) = <<"+">> THEN "true"
                     ELSE "false"]

\* C8: a listing of N 'Path = ' blocks parses to exactly N entries, in input
\* order, each with the field values of its own block (the defaults for the
\* keys the block lacks), and fileCount + dirCount = N.
C8_OneEntryPerBlock ==
    Listed =>
        LET r == result[1]
        IN  /\ Len(r.entries) = BlockCount
            /\ \A k \in 1..BlockCount : r.entries[k] = ExpectedEntry(k)
            /\ r.stats.fileCount + r.stats.dirCount = BlockCount

\* C8 witness: two blocks were parsed; the first has a size, the second has
\* none and did not inherit it.
C8_Witness ==
    /\ Listed
    /\ BlockCount = 2
    /\ Len(result[1].entries) = 2
    /\ result[1].entries[1].size = 12
    /\ result[1].entries[2].size = 0
    /\ result[1].entries[1].path # result[1].entries[2].path

\* an attribute string with its 'D' removed, or given one if it has none
ToggleD(attributes) ==
    LET NotD(c) == c # "D"
    IN  IF HasD(attributes) THEN SelectSeq(attributes, NotD)
        ELSE <<"D">> \o attributes

\* the input with the 'D' of the Attributes line i toggled
ToggledInput(i) ==
    [input EXCEPT ![i] = RunnerText.Attributes
                           \o ToggleD(substring(trim(input[i]), Len(RunnerText.Attributes)))]

\* C9: an entry's directory flag is true exactly when its attribute string
\* contains 'D' (false for a block with no Attributes line); toggling the 'D'
\* of a block's Attributes line flips that entry's flag and changes no other
\* field but the attribute string, and changes no other entry.
C9_DirectoryIffD ==
    Listed =>
        LET r == result[1]
        IN  /\ \A k \in 1..Len(r.entries) :
                 r.entries[k].isDirectory = HasD(r.entries[k].attributes)
            /\ \A k \in 1..BlockCount :
                 KeyLines(k, RunnerText.Attributes) = {} => ~r.entries[k].isDirectory
            /\ \A k \in 1..BlockCount :
                 Cardinality(KeyLines(k, RunnerText.Attributes)) = 1 =>
                   LET i  == CHOOSE i \in KeyLines(k, RunnerText.Attributes) : TRUE
                       r2 == parseListOutput(joinLines(ToggledInput(i)))
                   IN  /\ Len(r2.entries) = Len(r.entries)
                       /\ r2.entries[k].isDirectory = ~r.entries[k].isDirectory
                       /\ \A m \in 1..Len(r.entries) :
                            [r2.entries[m] EXCEPT
                               !.isDirectory = IF m = k THEN ~@ ELSE @,
                               !.attributes = IF m = k
                                              THEN r.entries[m].attributes
                                              ELSE @]
                              = r.entries[m]

\* C9 witness: an entry whose attribute string holds a 'D' that is not its
\* first letter was parsed as a directory.
C9_Witness ==
    /\ Listed
    /\ \E k \in 1..Len(result[1].entries) :
         /\ result[1].entries[k].attributes = <<"R", "D">>
         /\ result[1].entries[k].isDirectory

RECURSIVE FileSum(_, _)
\* the sum of the field (a size) over the entries that are not directories
FileSum(entries, field) ==
    IF entries = <<>> THEN 0
    ELSE LET last == entries[Len(entries)]
         IN  (IF last.isDirectory THEN 0 ELSE last[field])
               + FileSum(SubSeq(entries, 1, Len(entries) - 1), field)

\* C10: totalSize and totalPackedSize are the sums of size and packedSize
\* over the non-directory entries, and ratio is totalPackedSize / totalSize
\* when totalSize > 0 and 0 when totalSize = 0.
C10_TotalsAndRatio ==
    Listed =>
        LET r  == result[1]
            st == r.stats
        IN  /\ st.totalSize = FileSum(r.entries, "size")
            /\ st.totalPackedSize = FileSum(r.entries, "packedSize")
            /\ st.totalSize > 0 =>
                 /\ st.ratio.den # 0
                 /\ st.ratio.num * FileSum(r.entries, "size")
                      = FileSum(r.entries, "packedSize") * st.ratio.den
            /\ st.totalSize = 0 => st.ratio.num = 0

\* C10 witness: a file of size 12 packed to 5 gave the ratio 5/12.
C10_Witness ==
    /\ Listed
    /\ result[1].stats.totalSize = 12
    /\ result[1].stats.totalPackedSize = 5
    /\ result[1].stats.ratio = Quotient(5, 12)

(***************************************************************************)
(* parseTestOutput (runner.ts 278-303).                                    *)
(***************************************************************************)
\* the most lines of a test report
MaxTestLines == 3

\* runner.ts 284-290: the line, lower-cased, holds one of the four words
looksLikeError(line) ==
    LET lower == toLowerCase(line)
    IN  \/ includes(lower, RunnerText.error)
        \/ includes(lower, RunnerText.failed)
        \/ includes(lower, RunnerText.cannot)
        \/ includes(lower, RunnerText.crc_failed)

RECURSIVE testLoop(_, _, _)
\* runner.ts 283-294: for (const line of lines), acc = {ok, errors}
testLoop(lines, i, acc) ==
    IF i > Len(lines) THEN acc
    ELSE IF looksLikeError(lines[i])
         THEN testLoop(lines, i + 1,
                       [ok |-> FALSE, errors |-> Append(acc.errors, trim(lines[i]))])
         ELSE testLoop(lines, i + 1, acc)

\* the banner check that only restores ok
bannerOverrideKeepingErrors(output, acc) ==
    IF includes(output, RunnerText.Everything_is_Ok)
    THEN [ok |-> TRUE, errors |-> acc.errors]
    ELSE acc

\* runner.ts 297-300: "Everything is Ok" forces ok and empties errors
bannerOverride(output, acc) ==
    IF includes(output, RunnerText.Everything_is_Ok)
    THEN [ok |-> TRUE, errors |-> <<>>]
    ELSE acc

parseTestOutput(output) ==
    bannerOverride(output,
                   testLoop(split(output), 1, [ok |-> TRUE, errors |-> <<>>]))

TL_banner ==
    <<"E", "v", "e", "r", "y", "t", "h", "i", "n", "g", " ", "i", "s", " ", "O", "k">>
TL_banner_lower ==
    <<"e", "v", "e", "r", "y", "t", "h", "i", "n", "g", " ", "i", "s", " ", "o", "k">>
TL_error ==
    <<" ", " ", "E", "R", "R", "O", "R", ":", " ", "a", ".", "t", "x", "t", " ">>
TL_crc ==
    <<"C", "R", "C", " ", "F", "a", "i", "l", "e", "d", " ", ":", " ", "b", ".", "t", "x", "t">>
TL_cannot ==
    <<"C", "a", "n", "n", "o", "t", " ", "o", "p", "e", "n", " ", "c", ".", "t", "x", "t", "\r">>
TL_plain ==
    <<"T", "e", "s", "t", "i", "n", "g", " ", "a", ".", "t", "x", "t">>

TestLinePool ==
    {TL_banner, TL_banner_lower, TL_error, TL_crc, TL_cannot, TL_plain}

TestInputs == SeqsUpTo(TestLinePool, MaxTestLines)

TestInit ==
    /\ ProcessInit
    /\ BinaryIdle
    /\ fn = "parseTestOutput"
    /\ input \in TestInputs
    /\ result = Null

ParseTest ==
    /\ fn = "parseTestOutput"
    /\ result = Null
    /\ result' = Some(parseTestOutput(joinLines(input)))
    /\ UNCHANGED <<fn, input>>
    /\ UNCHANGED <<timerArmed, killed, stdoutChunks, stderrChunks, crashed,
                   promise, calls, progressLog>>
    /\ UNCHANGED childVars
    /\ UNCHANGED cfgVars
    /\ UNCHANGED binaryVars

(***************************************************************************)
(* Properties of parseTestOutput.                                          *)
(***************************************************************************)
Tested == fn = "parseTestOutput" /\ result # Null

\* some line of the report holds the banner, letter for letter
HasBanner == \E i \in 1..Len(input) : includes(input[i], RunnerText.Everything_is_Ok)

\* the line reads like an error, whatever its letter case
ErrorLike(line) ==
    \E w \in {RunnerText.error, RunnerText.failed, RunnerText.cannot, RunnerText.crc_failed} :
        includes(toLowerCase(line), w)

\* the numbers of the lines that read like an error
ErrorLines == {i \in 1..Len(input) : ErrorLike(input[i])}

\* the k-th smallest element of a set of numbers
Nth(S, k) == CHOOSE n \in S : Cardinality({m \in S : m <= n}) = k

\* C11: with the banner "Everything is Ok" anywhere in the report the
\* result is {ok: true, errors: []}, however many lines read like an error
\* and wherever they stand; without it the errors are the trimmed
\* error-like lines in input order and ok is false exactly when there is one.
C11_BannerOverrides ==
    Tested =>
        LET r == result[1]
        IN  /\ HasBanner => r = [ok |-> TRUE, errors |-> <<>>]
            /\ ~HasBanner =>
                 /\ Len(r.errors) = Cardinality(ErrorLines)
                 /\ \A k \in 1..Len(r.errors) :
                        r.errors[k] = trim(input[Nth(ErrorLines, k)])
                 /\ r.ok = (r.errors = <<>>)

\* C11 witness: error-like lines stand before and after the banner and the
\* result is ok with no errors.
C11_Witness ==
    /\ Tested
    /\ Len(input) = 3
    /\ input[1] = TL_error
    /\ input[2] = TL_banner
    /\ input[3] = TL_crc
    /\ result[1] = [ok |-> TRUE, errors |-> <<>>]

\* a report without the banner whose two error-like lines were recorded
C11_WitnessNoBanner ==
    /\ Tested
    /\ ~HasBanner
    /\ Len(result[1].errors) = 2
    /\ ~result[1].ok

(***************************************************************************)
(* parseHashOutput (runner.ts 252-273).                                    *)
(***************************************************************************)
\* the most lines of a hash report
MaxHashLines == 2

\* \w of a regular expression
WordChars ==
    {UpperChars[i] : i \in 1..26} \cup {LowerChars[i] : i \in 1..26}
        \cup {DigitChars[i] : i \in 1..10} \cup {"_"}

\* [0-9A-Fa-f]
HexChars ==
    {DigitChars[i] : i \in 1..10} \cup {"A", "B", "C", "D", "E", "F"}
        \cup {"a", "b", "c", "d", "e", "f"}

RECURSIVE runEnd(_, _, _)
\* a greedy class+ from index i: the first index past the run
runEnd(s, i, class) ==
    IF i <= Len(s) /\ s[i] \in class THEN runEnd(s, i + 1, class) ELSE i

\* /(\w+)\s+for data:\s+([0-9A-Fa-f]+)/ tried at index i
dataMatchAt(s, i) ==
    LET j == runEnd(s, i, WordChars)
        k == runEnd(s, j, WhiteSpace)
        l == k + Len(RunnerText.for_data)
        m == runEnd(s, l, WhiteSpace)
        n == runEnd(s, m, HexChars)
    IN  IF /\ j > i
           /\ k > j
           /\ l - 1 <= Len(s)
           /\ SubSeq(s, k, l - 1) = RunnerText.for_data
           /\ m > l
           /\ n > m
        THEN Some([name |-> SubSeq(s, i, j - 1), hex |-> SubSeq(s, m, n - 1)])
        ELSE Null

\* runner.ts 258: line.match(...), the leftmost index that matches
dataMatch(s) ==
    LET hits == {i \in 1..Len(s) : dataMatchAt(s, i) # Null}
    IN  IF hits = {} THEN Null
        ELSE dataMatchAt(s, CHOOSE i \in hits : \A j \in hits : i <= j)

\* runner.ts 264: line.match(/^([0-9A-Fa-f]+)\s+(.+)$/): the hexadecimal
\* run from the start, white space (as much as leaves a rest), and a rest
\* without line terminator that reaches the end of the text
hashFileMatch(s) ==
    LET h == runEnd(s, 1, HexChars)
        w == runEnd(s, h, WhiteSpace)
        starts == {p \in (h + 1)..w :
                      /\ p <= Len(s)
                      /\ \A x \in p..Len(s) : s[x] \notin LineTerminators}
    IN  IF h > 1 /\ starts # {}
        THEN LET p == CHOOSE q \in starts : \A r \in starts : r <= q
             IN  Some([hash |-> SubSeq(s, 1, h - 1),
                       file |-> SubSeq(s, p, Len(s))])
        ELSE Null

\* const hashes: Record<string, string> = {}
EmptyRecord == [key \in {} |-> <<>>]

\* hashes[key] = value
setKey(hashes, key, value) ==
    [x \in (DOMAIN hashes) \cup {key} |-> IF x = key THEN value ELSE hashes[x]]

RECURSIVE hashLoop(_, _, _)
\* runner.ts 256-270: for (const line of lines)
hashLoop(lines, i, hashes) ==
    IF i > Len(lines) THEN hashes
    ELSE LET dm == dataMatch(lines[i])
             fm == hashFileMatch(lines[i])
         IN  IF dm # Null
             THEN hashLoop(lines, i + 1,
                           setKey(hashes, toLowerCase(dm[1].name), dm[1].hex))
             ELSE IF fm # Null
             THEN hashLoop(lines, i + 1,
                           setKey(hashes, trim(fm[1].file), fm[1].hash))
             ELSE hashLoop(lines, i + 1, hashes)

parseHashOutput(output) == hashLoop(split(output), 1, EmptyRecord)

HL_data ==
    <<"S", "H", "A", "2", "5", "6", " ", "f", "o", "r", " ", "d", "a", "t", "a", ":", " ", "D", "E", "A", "D", "B", "E", "E", "F">>
HL_data_padded ==
    <<"C", "R", "C", "3", "2", " ", " ", "f", "o", "r", " ", "d", "a", "t", "a", ":", " ", " ", " ", " ", "1", "a", "2", "B">>
HL_data_no_hex ==
    <<"M", "D", "5", " ", "f", "o", "r", " ", "d", "a", "t", "a", ":", " ", "x", "y", "z">>
HL_file ==
    <<"A", "B", "C", "D", "1", "2", "3", "4", " ", " ", "f", "i", "l", "e", ".", "t", "x", "t">>
HL_file_again ==
    <<"0", "0", "f", "f", " ", " ", "f", "i", "l", "e", ".", "t", "x", "t">>
HL_file_spaced ==
    <<"0", "F", " ", "\t", " ", "m", "y", " ", "f", "i", "l", "e", ".", "t", "x", "t", " ">>
HL_both ==
    <<"A", "B", "C", "D", " ", " ", "S", "H", "A", "1", " ", "f", "o", "r", " ", "d", "a", "t", "a", ":", " ", "F", "F">>
HL_size ==
    <<"S", "i", "z", "e", ":", " ", "5">>
HL_files ==
    <<"F", "i", "l", "e", "s", ":", " ", "1">>
HL_empty ==
    <<>>

HashLinePool ==
    {HL_data, HL_data_padded, HL_data_no_hex, HL_file, HL_file_again,
     HL_file_spaced, HL_both, HL_size, HL_files, HL_empty}

\* the line endings 7-Zip writes: "\n", and "\r\n" on Windows
LineEndings == {<<"\n">>, <<"\r", "\n">>}

RECURSIVE endLines(_, _)
\* the text of the lines, each followed by the line ending
endLines(lines, eol) ==
    IF lines = <<>> THEN <<>>
    ELSE Head(lines) \o eol \o endLines(Tail(lines), eol)

HashInputs ==
    [lines : SeqsUpTo(HashLinePool, MaxHashLines), eol : LineEndings]

HashInit ==
    /\ ProcessInit
    /\ BinaryIdle
    /\ fn = "parseHashOutput"
    /\ input \in HashInputs
    /\ result = Null

ParseHash ==
    /\ fn = "parseHashOutput"
    /\ result = Null
    /\ result' = Some(parseHashOutput(endLines(input.lines, input.eol)))
    /\ UNCHANGED <<fn, input>>
    /\ UNCHANGED <<timerArmed, killed, stdoutChunks, stderrChunks, crashed,
                   promise, calls, progressLog>>
    /\ UNCHANGED childVars
    /\ UNCHANGED cfgVars
    /\ UNCHANGED binaryVars

HashNext == ParseHash

HashSpec == HashInit /\ [][HashNext]_vars

(***************************************************************************)
(* Properties of parseHashOutput.                                          *)
(***************************************************************************)
Hashed == fn = "parseHashOutput" /\ result # Null

\* "for data:" stands at index k of the line, after a word and white space
\* and before white space and hexadecimal digits
DataAt(line, k) ==
    /\ k + Len(RunnerText.for_data) - 1 <= Len(line)
    /\ SubSeq(line, k, k + Len(RunnerText.for_data) - 1) = RunnerText.for_data
    /\ \E e \in 1..(k - 2) :
           /\ line[e] \in WordChars
           /\ \A x \in (e + 1)..(k - 1) : line[x] \in WhiteSpace
    /\ \E b \in (k + Len(RunnerText.for_data) + 1)..Len(line) :
           /\ line[b] \in HexChars
           /\ \A x \in (k + Len(RunnerText.for_data))..(b - 1) : line[x] \in WhiteSpace

\* the line has the shape "<hashname> for data: <hex>"
DataShape(line) == \E k \in 1..Len(line) : DataAt(line, k)

\* the hash name and the digits of such a line (its first "for data:")
DataEntry(line) ==
    LET k == CHOOSE q \in 1..Len(line) :
                 DataAt(line, q) /\ \A r \in 1..(q - 1) : ~DataAt(line, r)
        e == CHOOSE q \in 1..(k - 2) :
                 /\ line[q] \in WordChars
                 /\ \A x \in (q + 1)..(k - 1) : line[x] \in WhiteSpace
        a == CHOOSE q \in 1..e :
                 /\ \A x \in q..e : line[x] \in WordChars
                 /\ q > 1 => line[q - 1] \notin WordChars
        b == CHOOSE q \in (k + Len(RunnerText.for_data) + 1)..Len(line) :
                 /\ line[q] \in HexChars
                 /\ \A x \in (k + Len(RunnerText.for_data))..(q - 1) : line[x] \in WhiteSpace
        c == CHOOSE q \in b..Len(line) :
                 /\ \A x \in b..q : line[x] \in HexChars
                 /\ q < Len(line) => line[q + 1] \notin HexChars
    IN  [key |-> toLowerCase(SubSeq(line, a, e)), value |-> SubSeq(line, b, c)]

\* the number of hexadecimal digits the line starts with
LeadingHex(line) ==
    CHOOSE n \in 0..Len(line) :
        /\ \A x \in 1..n : line[x] \in HexChars
        /\ n < Len(line) => line[n + 1] \notin HexChars

\* the line has the shape "<hex>  <filename>": hexadecimal digits, white
\* space, and a file name
FileShape(line) ==
    LET h == LeadingHex(line)
    IN  /\ h >= 1
        /\ h < Len(line)
        /\ line[h + 1] \in WhiteSpace
        /\ trim(SubSeq(line, h + 1, Len(line))) # <<>>

FileEntry(line) ==
    LET h == LeadingHex(line)
    IN  [key   |-> trim(SubSeq(line, h + 1, Len(line))),
         value |-> SubSeq(line, 1, h)]

\* what the line adds to the mapping: a line of the first shape only its
\* hash name, a line of the second shape its file name, any other nothing
LineEntry(line) ==
    IF DataShape(line) THEN Some(DataEntry(line))
    ELSE IF FileShape(line) THEN Some(FileEntry(line))
    ELSE Null

\* the mapping of the report: every key of a line, with the value of the
\* last line that has the key
ExpectedHashes ==
    LET lines == input.lines
        at(i) == LineEntry(lines[i])
        idx   == {i \in 1..Len(lines) : at(i) # Null}
        keys  == {at(i)[1].key : i \in idx}
        last(key) == CHOOSE i \in idx :
                         /\ at(i)[1].key = key
                         /\ \A j \in idx : j > i => at(j)[1].key # key
    IN  [key \in keys |-> at(last(key))[1].value]

\* C12: every line "<hashname> for data: <hex>" gives an entry under the
\* lower-cased hash name, every line "<hex>  <filename>" an entry under the
\* file name, any other line nothing, and a line of the first shape is not
\* recorded under the second as well.
C12_HashLines ==
    Hashed => result[1] = ExpectedHashes

\* the same for a report whose lines end with "\n" alone
C12_HashLinesLF ==
    (Hashed /\ input.eol = <<"\n">>) => result[1] = ExpectedHashes

\* a report with both shapes, lines ending with "\n", parsed into two entries
C12_WitnessLF ==
    /\ Hashed
    /\ input.eol = <<"\n">>
    /\ input.lines = <<HL_data, HL_file>>
    /\ DOMAIN result[1] = {toLowerCase(SubSeq(HL_data, 1, 6)), SubSeq(HL_file, 11, 18)}

(***************************************************************************)
(* The commands (commands.ts): each builds its switches and hands the      *)
(* argument vector to the runner.  Texts are sequences of characters; an   *)
(* option that is a string is absent when it is empty (the code tests it   *)
(* for truthiness), an option that is a number is Null or Num(n).          *)
(***************************************************************************)
\* the most include patterns, and exclude patterns, of a request
MaxPatterns == 2
\* the most file selectors of a request
MaxFiles == 2

\* constants.ts 88-131
SWITCHES ==
    [TYPE |-> <<"-", "t">>,
     LEVEL |-> <<"-", "m", "x">>,
     METHOD |-> <<"-", "m", "0">>,
     DICT_SIZE |-> <<"-", "m", "d">>,
     WORD_SIZE |-> <<"-", "m", "f", "b", "c">>,
     THREADS |-> <<"-", "m", "m", "t">>,
     SOLID |-> <<"-", "m", "s">>,
     ENCRYPT_HEADERS |-> <<"-", "m", "h", "e">>,
     PASSWORD |-> <<"-", "p">>,
     OUTPUT |-> <<"-", "o">>,
     OVERWRITE_ALL |-> <<"-", "a", "o", "a">>,
     SKIP_EXISTING |-> <<"-", "a", "o", "s">>,
     TECH_INFO |-> <<"-", "s", "l", "t">>,
     VERBOSE |-> <<"-", "b", "b", "1">>,
     RECURSE |-> <<"-", "r">>,
     NO_RECURSE |-> <<"-", "r", "-">>,
     INCLUDE |-> <<"-", "i", "!">>,
     EXCLUDE |-> <<"-", "x", "!">>,
     STORE_SYMLINKS |-> <<"-", "s", "n", "l">>,
     STORE_HARDLINKS |-> <<"-", "s", "n", "h">>,
     TIMESTAMPS |-> <<"-", "b", "t">>,
     YES |-> <<"-", "y">>,
     SFX |-> <<"-", "s", "f", "x">>,
     VOLUME |-> <<"-", "v">>,
     PRESERVE_PERMISSIONS |-> <<"-", "s", "p", "f">>]

\* constants.ts 136-148
COMMANDS ==
    [ADD |-> <<"a">>,
     EXTRACT |-> <<"x">>,
     EXTRACT_FLAT |-> <<"e">>,
     LIST |-> <<"l">>,
     TEST |-> <<"t">>,
     UPDATE |-> <<"u">>,
     DELETE |-> <<"d">>,
     RENAME |-> <<"r", "n">>,
     HASH |-> <<"h">>,
     INFO |-> <<"i">>,
     BENCHMARK |-> <<"b">>]

\* the string literals of the commands (commands.ts 48-520)
CommandsText ==
    [eq |-> <<"=">>,
     eq_on |-> <<"=", "o", "n">>,
     minus |-> <<"-">>,
     si |-> <<"-", "s", "i">>,
     so |-> <<"-", "s", "o">>,
     scrc |-> <<"-", "s", "c", "r", "c">>,
     mm_eq |-> <<"-", "m", "m", "=">>,
     mmt_eq |-> <<"-", "m", "m", "t", "=">>,
     bang |-> <<"!">>]

RECURSIVE numToStr(_)
\* `${n}` of a natural number
numToStr(n) ==
    IF n < 10 THEN <<DigitChars[n + 1]>>
    ELSE numToStr(n \div 10) \o <<DigitChars[(n % 10) + 1]>>

\* switches.push(...items)
pushAll(switches, items) == switches \o items

\* switches.push(item) when the condition holds
pushIf(switches, cond, item) == IF cond THEN Append(switches, item) ELSE switches

\* a loop that stops after the first pattern
prefixEachFirstOnly(prefix, patterns) ==
    IF patterns = <<>> THEN <<>> ELSE <<prefix \o Head(patterns)>>

RECURSIVE prefixEach(_, _)
\* for (const pattern of patterns) switches.push(`${prefix}${pattern}`)
prefixEach(prefix, patterns) ==
    IF patterns = <<>> THEN <<>>
    ELSE <<prefix \o Head(patterns)>> \o prefixEach(prefix, Tail(patterns))

\* Array.isArray(files) ? files : [files]
fileListOf(files) == IF files.isArray THEN files.items ELSE <<files.items[1]>>

\* what a command does at last: it throws, or hands a vector to the runner
Thrown(error) == [kind |-> "throw", error |-> error]
Handed(vector, runOptions) ==
    [kind |-> "run", args |-> vector, options |-> runOptions]

\* a check that never throws
validateArchiveExistsNever(archive, exists, then) == then

\* commands.ts 33-37
validateArchiveExists(archive, exists, then) ==
    IF exists THEN then ELSE Thrown(ArchiveNotFoundError(archive))

\* options that carry a timeout of 0 to run
RunOptionsDisablingTimeout(archivePath_, onProgress_, cwd_) ==
    [archivePath |-> archivePath_, onProgress |-> onProgress_, cwd |-> cwd_,
     timeout |-> Num(0)]

\* the options a command passes to run: absent ones are empty or FALSE
RunOptions(archivePath_, onProgress_, cwd_) ==
    [archivePath |-> archivePath_, onProgress |-> onProgress_, cwd |-> cwd_]

\* commands.ts 129-208: the switches of add
addSwitches(options) ==
    LET s1  == pushIf(<<>>, options.type # <<>>, SWITCHES.TYPE \o options.type)
        s2  == pushIf(s1, options.level # Null,
                      SWITCHES.LEVEL \o CommandsText.eq \o numToStr(options.level[1]))
        s3  == pushIf(s2, options.method # <<>>,
                      SWITCHES.METHOD \o CommandsText.eq \o options.method)
        s4  == pushIf(s3, options.dictionarySize # <<>>,
                      SWITCHES.DICT_SIZE \o CommandsText.eq \o options.dictionarySize)
        s5  == pushIf(s4, options.wordSize # Null,
                      SWITCHES.WORD_SIZE \o CommandsText.eq \o numToStr(options.wordSize[1]))
        s6  == pushIf(s5, options.threads # Null,
                      SWITCHES.THREADS \o numToStr(options.threads[1]))
        s7  == pushIf(s6, options.solid, SWITCHES.SOLID \o CommandsText.eq_on)
        s8  == pushIf(s7, options.sfx, SWITCHES.SFX)
        s9  == pushIf(s8, options.volumes # <<>>, SWITCHES.VOLUME \o options.volumes)
        s10 == pushIf(s9, options.password # <<>>,
                      SWITCHES.PASSWORD \o options.password)
        s11 == pushIf(s10, options.password # <<>> /\ options.encryptFilenames,
                      SWITCHES.ENCRYPT_HEADERS \o CommandsText.eq_on)
        s12 == pushAll(s11, prefixEach(SWITCHES.INCLUDE, options.includePatterns))
        s13 == pushAll(s12, prefixEach(SWITCHES.EXCLUDE, options.excludePatterns))
        s14 == Append(s13, IF options.recursive = "false"
                           THEN SWITCHES.NO_RECURSE ELSE SWITCHES.RECURSE)
        s15 == IF options.followSymlinks
               THEN pushAll(s14, <<SWITCHES.STORE_HARDLINKS \o CommandsText.minus,
                                   SWITCHES.STORE_SYMLINKS \o CommandsText.minus>>)
               ELSE s14
        s16 == IF options.storeSymlinks
               THEN pushAll(s15, <<SWITCHES.STORE_HARDLINKS, SWITCHES.STORE_SYMLINKS>>)
               ELSE s15
    IN  Append(s16, SWITCHES.YES)

\* commands.ts 124-217
add(archive, files, options) ==
    Handed(buildArgs(COMMANDS.ADD, addSwitches(options), archive, fileListOf(files)),
           RunOptions(<<>>, options.onProgress, options.cwd))

\* commands.ts 228-264: the switches of extract
extractSwitches(options) ==
    LET s1 == pushIf(<<SWITCHES.YES>>, options.outputDir # <<>>,
                     SWITCHES.OUTPUT \o options.outputDir)
        s2 == pushIf(s1, options.password # <<>>,
                     SWITCHES.PASSWORD \o options.password)
        s3 == pushAll(s2, prefixEach(SWITCHES.INCLUDE, options.includePatterns))
        s4 == pushAll(s3, prefixEach(SWITCHES.EXCLUDE, options.excludePatterns))
        s5 == IF options.overwrite = "false" THEN Append(s4, SWITCHES.SKIP_EXISTING)
              ELSE IF options.overwrite = "true" THEN Append(s4, SWITCHES.OVERWRITE_ALL)
              ELSE s4
    IN  pushIf(s5, options.preservePermissions, SWITCHES.PRESERVE_PERMISSIONS)

\* commands.ts 222-276
extract(archive, exists, options) ==
    validateArchiveExists(archive, exists,
        Handed(buildArgs(IF options.flat THEN COMMANDS.EXTRACT_FLAT ELSE COMMANDS.EXTRACT,
                         extractSwitches(options), archive, options.files),
               RunOptions(archive, options.onProgress, <<>>)))

\* commands.ts 281-299 (up to the call of run)
list(archive, exists, options) ==
    validateArchiveExists(archive, exists,
        LET s1 == pushIf(<<SWITCHES.TECH_INFO>>, options.verbose, SWITCHES.VERBOSE)
            s2 == pushIf(s1, options.password # <<>>,
                         SWITCHES.PASSWORD \o options.password)
        IN  Handed(buildArgs(COMMANDS.LIST, s2, archive, <<>>),
                   RunOptions(archive, FALSE, <<>>)))

\* commands.ts 317-345
update(archive, exists, options) ==
    validateArchiveExists(archive, exists,
        LET files == pushAll(options.add, prefixEach(CommandsText.bang, options.update))
        IN  Handed(buildArgs(COMMANDS.UPDATE, <<SWITCHES.YES>>, archive, files),
                   RunOptions(archive, options.onProgress, options.cwd)))

\* commands.ts 350-362
deleteFiles(archive, exists, wildcards) ==
    validateArchiveExists(archive, exists,
        Handed(buildArgs(COMMANDS.DELETE, <<SWITCHES.YES>>, archive, fileListOf(wildcards)),
               RunOptions(archive, FALSE, <<>>)))

\* commands.ts 367-381 (up to the call of run)
test(archive, exists, password) ==
    validateArchiveExists(archive, exists,
        Handed(buildArgs(COMMANDS.TEST,
                         pushIf(<<SWITCHES.TIMESTAMPS>>, password # <<>>,
                                SWITCHES.PASSWORD \o password),
                         archive, <<>>),
               RunOptions(archive, FALSE, <<>>)))

\* commands.ts 394-413 (up to the call of run)
hash(files, hashType) ==
    Handed(buildArgs(COMMANDS.HASH, <<CommandsText.scrc \o hashType>>, <<>>, fileListOf(files)),
           RunOptions(<<>>, FALSE, <<>>))

\* commands.ts 426-436 (up to the call of run)
hashArchive(archive, exists, hashType) ==
    validateArchiveExists(archive, exists,
        Handed(buildArgs(COMMANDS.HASH, <<CommandsText.scrc \o hashType>>, archive, <<>>),
               RunOptions(archive, FALSE, <<>>)))

\* commands.ts 451-456 (up to the call of run)
info(archive, exists) ==
    validateArchiveExists(archive, exists,
        Handed(buildArgs(COMMANDS.INFO, <<>>, archive, <<>>),
               RunOptions(archive, FALSE, <<>>)))

\* commands.ts 463-475
rename(archive, exists, oldName, newName) ==
    validateArchiveExists(archive, exists,
        Handed(buildArgs(COMMANDS.RENAME, <<SWITCHES.YES>>, archive, <<oldName, newName>>),
               RunOptions(archive, FALSE, <<>>)))

\* commands.ts 507-524: methods is undefined (Null) or a list, iterations
\* undefined or a number (0 is falsy)
benchmark(methods, iterations) ==
    LET s1 == IF methods # Null
              THEN pushAll(<<SWITCHES.VERBOSE>>, prefixEach(CommandsText.mm_eq, methods[1]))
              ELSE <<SWITCHES.VERBOSE>>
        s2 == pushIf(s1, iterations # Null /\ iterations # Num(0),
                     CommandsText.mmt_eq \o numToStr(iterations[1]))
    IN  Handed(buildArgs(COMMANDS.BENCHMARK, s2, <<>>, <<>>),
               RunOptions(<<>>, FALSE, <<>>))

\* commands.ts 48-57: the vector addFromStream hands to spawnCommand
addFromStreamArgs(archive, filename, options) ==
    LET s1 == pushIf(<<CommandsText.si \o filename>>, options.password # <<>>,
                     SWITCHES.PASSWORD \o options.password)
        s2 == pushIf(s1, options.level # Null /\ options.level # Num(0),
                     SWITCHES.LEVEL \o CommandsText.eq \o numToStr(options.level[1]))
        s3 == pushIf(s2, options.method # <<>>,
                     SWITCHES.METHOD \o CommandsText.eq \o options.method)
    IN  Handed(buildArgs(COMMANDS.ADD, Append(s3, SWITCHES.YES), archive, <<>>),
               RunOptions(archive, FALSE, options.cwd))

\* commands.ts 86-94: the vector extractToStream hands to spawnCommand
extractToStreamArgs(archive, exists, filename, options) ==
    validateArchiveExists(archive, exists,
        LET s1 == pushIf(<<CommandsText.so>>, options.password # <<>>,
                         SWITCHES.PASSWORD \o options.password)
        IN  Handed(buildArgs(COMMANDS.EXTRACT, Append(s1, SWITCHES.YES), archive, <<filename>>),
                   RunOptions(archive, FALSE, <<>>)))

\* commands.ts 488: `${sourceArchive}_temp_${Date.now()}`
tempDirOf(sourceArchive) == sourceArchive \o <<"_", "t", "e", "m", "p", "_">> \o DateNow

\* the options convert gives to extract: { outputDir: tempDir }
ConvertExtractOptions(tempDir) ==
    [outputDir |-> tempDir, password |-> <<>>, includePatterns |-> <<>>,
     excludePatterns |-> <<>>, overwrite |-> "undefined",
     preservePermissions |-> FALSE, files |-> <<>>, flat |-> FALSE,
     onProgress |-> FALSE]

\* commands.ts 480-493: convert up to its first await: it throws, or hands
\* the vector of its extract to the runner
convertStart(sourceArchive, exists) ==
    validateArchiveExists(sourceArchive, exists,
        extract(sourceArchive, exists,
                ConvertExtractOptions(tempDirOf(sourceArchive))))

(***************************************************************************)
(* The command specification: one command is called with a request and     *)
(* either throws or hands its argument vector to the runner.               *)
(***************************************************************************)
FILE_f_txt ==
    <<"f", ".", "t", "x", "t">>
FILE_dir ==
    <<"d", "i", "r">>
PATTERN_txt ==
    <<"*", ".", "t", "x", "t">>
PATTERN_log ==
    <<"*", ".", "l", "o", "g">>
TYPE_zip ==
    <<"z", "i", "p">>
PASSWORD_secret ==
    <<"s", "e", "c", "r", "e", "t">>
METHOD_LZMA2 ==
    <<"L", "Z", "M", "A", "2">>
SIZE_64m ==
    <<"6", "4", "m">>
DIR_out ==
    <<"o", "u", "t">>
HASH_sha256 ==
    <<"s", "h", "a", "2", "5", "6">>

FilePool == {FILE_f_txt, FILE_dir}
PatternPool == {PATTERN_txt, PATTERN_log}
PatternLists == SeqsUpTo(PatternPool, MaxPatterns)
FileLists == SeqsUpTo(FilePool, MaxFiles)

\* string | string[]
FilesArguments ==
    {[isArray |-> TRUE, items |-> fl] : fl \in FileLists}
        \cup {[isArray |-> FALSE, items |-> <<f>>] : f \in FilePool}

\* the options of add that no claim singles out: none, all, no recursion
AddOtherOptions ==
    {[method |-> <<>>, dictionarySize |-> <<>>, wordSize |-> Null,
      threads |-> Null, solid |-> FALSE, sfx |-> FALSE, volumes |-> <<>>,
      encryptFilenames |-> FALSE, recursive |-> "undefined",
      followSymlinks |-> FALSE, storeSymlinks |-> FALSE,
      onProgress |-> FALSE, cwd |-> <<>>],
     [method |-> METHOD_LZMA2, dictionarySize |-> SIZE_64m, wordSize |-> Num(32),
      threads |-> Num(4), solid |-> TRUE, sfx |-> TRUE, volumes |-> SIZE_64m,
      encryptFilenames |-> TRUE, recursive |-> "true",
      followSymlinks |-> TRUE, storeSymlinks |-> TRUE,
      onProgress |-> TRUE, cwd |-> DIR_out],
     [method |-> <<>>, dictionarySize |-> <<>>, wordSize |-> Null,
      threads |-> Num(0), solid |-> FALSE, sfx |-> FALSE, volumes |-> <<>>,
      encryptFilenames |-> TRUE, recursive |-> "false",
      followSymlinks |-> FALSE, storeSymlinks |-> TRUE,
      onProgress |-> FALSE, cwd |-> <<>>]}

AddOptionsPool ==
    {o @@ [type |-> t, level |-> l, password |-> p,
           includePatterns |-> inc, excludePatterns |-> exc] :
        o \in AddOtherOptions, t \in {<<>>, TYPE_zip},
        l \in {Null, Num(0), Num(9)}, p \in {<<>>, PASSWORD_secret},
        inc \in PatternLists, exc \in PatternLists}

ExtractOptionsPool ==
    [outputDir : {<<>>, DIR_out}, password : {<<>>, PASSWORD_secret},
     includePatterns : {<<>>, <<PATTERN_txt>>},
     excludePatterns : {<<>>, <<PATTERN_log>>},
     overwrite : {"undefined", "true", "false"},
     preservePermissions : BOOLEAN, files : FileLists, flat : BOOLEAN,
     onProgress : {FALSE}]

ListOptionsPool == [verbose : BOOLEAN, password : {<<>>, PASSWORD_secret}]

UpdateOptionsPool ==
    [add : FileLists, update : FileLists, onProgress : {FALSE}, cwd : {<<>>}]

StreamOptionsPool ==
    [password : {<<>>, PASSWORD_secret}, level : {Null, Num(0), Num(9)},
     method : {<<>>, METHOD_LZMA2}, cwd : {<<>>}]

\* the command returns (or throws) and the call is over
Return(name, request, outcome) ==
    /\ fn' = name
    /\ input' = request
    /\ result' = Some(outcome)
    /\ UNCHANGED <<timerArmed, killed, stdoutChunks, stderrChunks, crashed,
                   promise, calls, progressLog>>
    /\ UNCHANGED childVars
    /\ UNCHANGED cfgVars
    /\ UNCHANGED binaryVars

CallAdd ==
    /\ fn = "none"
    /\ \E exists \in BOOLEAN, files \in FilesArguments, options \in AddOptionsPool :
               Return("add",
                      [archive |-> PATH_archive, exists |-> exists, files |-> fileListOf(files),
                       options |-> options],
                      add(PATH_archive, files, options))

CallExtract ==
    /\ fn = "none"
    /\ \E exists \in BOOLEAN, options \in ExtractOptionsPool :
               Return("extract",
                      [archive |-> PATH_archive, exists |-> exists, files |-> options.files,
                       options |-> options],
                      extract(PATH_archive, exists, options))

CallList ==
    /\ fn = "none"
    /\ \E exists \in BOOLEAN, options \in ListOptionsPool :
               Return("list",
                      [archive |-> PATH_archive, exists |-> exists, files |-> <<>>, options |-> options],
                      list(PATH_archive, exists, options))

CallUpdate ==
    /\ fn = "none"
    /\ \E exists \in BOOLEAN, options \in UpdateOptionsPool :
               Return("update",
                      [archive |-> PATH_archive, exists |-> exists,
                       files |-> options.add \o prefixEach(CommandsText.bang, options.update),
                       options |-> options],
                      update(PATH_archive, exists, options))

CallDelete ==
    /\ fn = "none"
    /\ \E exists \in BOOLEAN, wildcards \in FilesArguments :
               Return("delete",
                      [archive |-> PATH_archive, exists |-> exists, files |-> fileListOf(wildcards)],
                      deleteFiles(PATH_archive, exists, wildcards))

CallTest ==
    /\ fn = "none"
    /\ \E exists \in BOOLEAN, password \in {<<>>, PASSWORD_secret} :
               Return("test", [archive |-> PATH_archive, exists |-> exists, files |-> <<>>],
                      test(PATH_archive, exists, password))

CallHash ==
    /\ fn = "none"
    /\ \E files \in FilesArguments :
               Return("hash", [archive |-> <<>>, files |-> fileListOf(files)],
                      hash(files, HASH_sha256))

CallHashArchive ==
    /\ fn = "none"
    /\ \E exists \in BOOLEAN :
               Return("hashArchive", [archive |-> PATH_archive, exists |-> exists, files |-> <<>>],
                      hashArchive(PATH_archive, exists, HASH_sha256))

CallInfo ==
    /\ fn = "none"
    /\ \E exists \in BOOLEAN :
               Return("info", [archive |-> PATH_archive, exists |-> exists, files |-> <<>>],
                      info(PATH_archive, exists))

CallRename ==
    /\ fn = "none"
    /\ \E exists \in BOOLEAN :
               Return("rename",
                      [archive |-> PATH_archive, exists |-> exists, files |-> <<FILE_f_txt, FILE_dir>>],
                      rename(PATH_archive, exists, FILE_f_txt, FILE_dir))

CallBenchmark ==
    /\ fn = "none"
    /\ \E methods \in {Null, Some(<<>>), Some(<<METHOD_LZMA2>>)},
              iterations \in {Null, Num(0), Num(2)} :
               Return("benchmark", [archive |-> <<>>, files |-> <<>>],
                      benchmark(methods, iterations))

CallAddFromStream ==
    /\ fn = "none"
    /\ \E exists \in BOOLEAN, options \in StreamOptionsPool :
               Return("addFromStream",
                      [archive |-> PATH_archive, exists |-> exists, files |-> <<>>, options |-> options],
                      addFromStreamArgs(PATH_archive, FILE_f_txt, options))

CallExtractToStream ==
    /\ fn = "none"
    /\ \E exists \in BOOLEAN, options \in [password : {<<>>, PASSWORD_secret}] :
               Return("extractToStream",
                      [archive |-> PATH_archive, exists |-> exists, files |-> <<FILE_f_txt>>,
                       options |-> options],
                      extractToStreamArgs(PATH_archive, exists, FILE_f_txt, options))

CallConvert ==
    /\ fn = "none"
    /\ \E exists \in BOOLEAN :
           Return("convert",
                  [archive |-> PATH_archive, exists |-> exists, files |-> <<>>],
                  convertStart(PATH_archive, exists))

\* the commands that spawn their child themselves (commands.ts 58, 329):
\* the others hand their vector to run
SpawningCommands == {"addFromStream", "extractToStream"}

\* options?.timeout of the options handed to run: Null when they have none
timeoutGiven(options) ==
    IF "timeout" \in DOMAIN options THEN options.timeout ELSE Null

\* runner.ts 62-85: run starts with the vector and the options the command
\* handed to it, and spawns the child
CommandRuns ==
    /\ op = "idle"
    /\ fn \notin SpawningCommands \cup {"none"}
    /\ result[1].kind = "run"
    /\ op' = "run"
    /\ args' = result[1].args
    /\ timeout' = timeoutOf(timeoutGiven(result[1].options))
    /\ onProgress' = result[1].options.onProgress
    /\ archivePath' = result[1].options.archivePath
    /\ childState' = "alive"
    /\ timeoutId' = (timeout' > 0)
    /\ timerArmed' = (timeout' > 0)
    /\ UNCHANGED <<promise, calls>>
    /\ UNCHANGED <<killed, stdoutChunks, stderrChunks, exitCode, signals,
                   errorEmitted, stdoutEnded, sourceErrored, crashed, progressLog>>
    /\ UNCHANGED pureVars
    /\ UNCHANGED binaryVars

CommandNext ==
    \/ CallAdd
    \/ CallExtract
    \/ CallList
    \/ CallUpdate
    \/ CallDelete
    \/ CallTest
    \/ CallHash
    \/ CallHashArchive
    \/ CallInfo
    \/ CallRename
    \/ CallBenchmark
    \/ CallAddFromStream
    \/ CallExtractToStream
    \/ CallConvert
    \/ CommandRuns
    \/ TimerFire
    \/ \E code \in {Num(EXIT_SUCCESS), Num(EXIT_FATAL_ERROR)} : RunClose(code)

CommandSpec == Init /\ [][CommandNext]_vars

(***************************************************************************)
(* Properties of the argument vectors.                                     *)
(***************************************************************************)
CommandNames ==
    {"add", "extract", "list", "update", "delete", "test", "hash",
     "hashArchive", "info", "rename", "benchmark", "addFromStream",
     "extractToStream"}

\* a command handed a vector to the runner
Commanded == fn \in CommandNames /\ result # Null /\ result[1].kind = "run"

\* the vector handed to the runner
Vector == result[1].args

\* the verb of 7-Zip for the command called
VerbOf ==
    CASE fn \in {"add", "addFromStream"} -> <<"a">>
      [] fn = "extract" -> IF input.options.flat THEN <<"e">> ELSE <<"x">>
      [] fn = "extractToStream" -> <<"x">>
      [] fn = "list" -> <<"l">>
      [] fn = "update" -> <<"u">>
      [] fn = "delete" -> <<"d">>
      [] fn = "test" -> <<"t">>
      [] fn \in {"hash", "hashArchive"} -> <<"h">>
      [] fn = "info" -> <<"i">>
      [] fn = "rename" -> <<"r", "n">>
      [] fn = "benchmark" -> <<"b">>

\* a switch starts with a dash
IsSwitch(a) == a # <<>> /\ a[1] = "-"

\* the archive path (when the command has one) and the file selectors
Positionals ==
    (IF input.archive # <<>> THEN <<input.archive>> ELSE <<>>) \o input.files

\* the index in the vector where the archive path and the selectors start
FirstPositional == Len(Vector) - Len(Positionals) + 1

\* C13: the vector handed to the runner is the verb, then switches only,
\* then the archive path (when the command has one), then the file
\* selectors in the caller's order; no switch stands after the archive path.
C13_ArgumentOrder ==
    Commanded =>
        /\ Len(Vector) >= 1 + Len(Positionals)
        /\ Vector[1] = VerbOf
        /\ \A i \in 2..(FirstPositional - 1) : IsSwitch(Vector[i])
        /\ SubSeq(Vector, FirstPositional, Len(Vector)) = Positionals
        /\ \A i \in FirstPositional..Len(Vector) : ~IsSwitch(Vector[i])

\* C13 witness: an add with switches, an archive and two selectors, in the
\* caller's order.
C13_Witness ==
    /\ Commanded
    /\ fn = "add"
    /\ input.files = <<FILE_dir, FILE_f_txt>>
    /\ Len(Vector) > 4
    /\ Vector[Len(Vector) - 2] = PATH_archive
    /\ IsSwitch(Vector[Len(Vector) - 3])

\* C14: the vector of every command that spawns the executable holds the
\* unattended-confirmation switch "-y".
C14_AlwaysYes ==
    Commanded => \E i \in 1..Len(Vector) : Vector[i] = <<"-", "y">>

\* the commands whose vector does hold "-y"
C14_YesOfWritingCommands ==
    (Commanded /\ fn \in {"add", "extract", "update", "delete", "rename",
                          "addFromStream", "extractToStream"})
        => \E i \in 1..Len(Vector) : Vector[i] = <<"-", "y">>

\* the switches of the vector that start with the prefix, in order
SwitchesWith(prefix) == SelectSeq(Vector, LAMBDA a : startsWith(a, prefix))

\* the vector holds the switch before the archive path
BeforeArchive(switch) ==
    \E i \in 2..(FirstPositional - 1) : Vector[i] = switch

\* C15: an add request with a type T, a level N in 0..9 and a password P
\* gives a vector with "-tT", "-mx=N" and "-pP" before the archive path;
\* each include pattern gives one "-i!<pattern>" and each exclude pattern
\* one "-x!<pattern>"; the vector ends with the archive path and then the
\* file selectors.
C15_AddSwitches ==
    (Commanded /\ fn = "add") =>
        LET o == input.options
        IN  /\ o.type # <<>> => BeforeArchive(<<"-", "t">> \o o.type)
            /\ (o.level # Null /\ o.level[1] \in 0..9) =>
                   BeforeArchive(<<"-", "m", "x", "=">> \o <<DigitChars[o.level[1] + 1]>>)
            /\ o.password # <<>> => BeforeArchive(<<"-", "p">> \o o.password)
            /\ SwitchesWith(<<"-", "i", "!">>)
                 = [k \in 1..Len(o.includePatterns) |->
                        <<"-", "i", "!">> \o o.includePatterns[k]]
            /\ SwitchesWith(<<"-", "x", "!">>)
                 = [k \in 1..Len(o.excludePatterns) |->
                        <<"-", "x", "!">> \o o.excludePatterns[k]]
            /\ Len(Vector) > Len(input.files)
            /\ SubSeq(Vector, Len(Vector) - Len(input.files), Len(Vector))
                 = <<input.archive>> \o input.files

\* C15 witness: add of f.txt as zip, level 9, password "secret", two include
\* patterns and one exclude pattern.
C15_Witness ==
    /\ Commanded
    /\ fn = "add"
    /\ input.options.type = TYPE_zip
    /\ input.options.level = Num(9)
    /\ input.options.password = PASSWORD_secret
    /\ input.options.includePatterns = <<PATTERN_txt, PATTERN_log>>
    /\ input.options.excludePatterns = <<PATTERN_log>>
    /\ input.files = <<FILE_f_txt>>
    /\ Vector[Len(Vector)] = FILE_f_txt

(***************************************************************************)
(* The binary locator (binary.ts).  A path is a plain string; an optional  *)
(* path is Null or Some(path), and the empty path is falsy as in the code. *)
(***************************************************************************)
\* the most asynchronous calls (ensureBinary, downloadBundledBinary, a
\* constructor's ensureBinary) of one behaviour
MaxAsyncCalls == 1

\* binary.ts 76-82: path.join(DEFAULT_BIN_DIR, '7za'), the same name with or
\* without a bundled asset on a platform other than Windows
getBundledBinaryPath == "bin/7za"

PATH_custom == "/opt/7za"
PATH_missing == "/nowhere/7za"

\* customPath, binaryPath, options.binaryPath: a non-empty string
Truthy(optional) == optional # Null /\ optional[1] # ""

\* binary.ts 87-94: the value getPath returns; it leaves it in the cache
getPath(cached) == IF cached # Null THEN cached[1] ELSE getBundledBinaryPath

\* a resolution that prefers the cache to the custom path
getBinaryPathCacheFirst(customPath, cached) ==
    IF cached # Null THEN cached[1]
    ELSE IF Truthy(customPath) THEN customPath[1] ELSE getBundledBinaryPath

\* binary.ts 112-117
getBinaryPath(customPath, cached) ==
    IF Truthy(customPath) THEN customPath[1] ELSE getPath(cached)

\* a resolution that stores the path it returns, the custom one included
cacheAfterResolveStoringCustom(customPath, cached) ==
    Some(getBinaryPath(customPath, cached))

\* the cache after a call of getBinaryPath(customPath) (or of
\* `customPath || getPath()`)
cacheAfterResolve(customPath, cached) ==
    IF Truthy(customPath) THEN cached ELSE Some(getPath(cached))

\* binary.ts 211-215: execSync of the file without arguments throws when the
\* file is missing or exits with a non-zero status (or runs for over a second)
probeThrows(binary) == binary \notin disk \/ host.probe[binary] # "exit0"

\* binary.ts 203-220
verifyBinary(binaryPath, cached) ==
    LET binary == getBinaryPath(binaryPath, cached)
    IN  IF binary \notin disk THEN FALSE
        ELSE ~probeThrows(binary)

\* binary.ts 225-233
ensureBinaryPath(customPath, cached) ==
    LET binaryPath == getBinaryPath(customPath, cached)
    IN  IF ~verifyBinary(Some(binaryPath), cacheAfterResolve(customPath, cached))
        THEN Thrown(BinaryNotFoundError(<<binaryPath>>))
        ELSE [kind |-> "return", value |-> binaryPath]

\* binary.ts 180-198: the version the file prints, undefined when the run throws
getBinaryVersion(binary) == IF probeThrows(binary) THEN "undefined" ELSE "23.01"

\* binary.ts 157-168
BinaryInfo(binaryPath) ==
    [path |-> binaryPath, isBundled |-> binaryPath \in disk,
     version |-> getBinaryVersion(binaryPath)]

\* a promise of the locator, in the list of the asynchronous calls: the
\* function that returned it, and how it stands
PromiseOf(call, state, value, fetching) ==
    [call |-> call, state |-> state, value |-> value, fetching |-> fetching]

\* binary.ts 238-259: downloadBundledBinary up to its await: the promise,
\* and the cache it leaves
downloadStart(call, cached) ==
    IF ~host.hasAsset
    THEN [promise |-> PromiseOf(call, "rejected",
                                BinaryNotFoundError(<<getBundledBinaryPath>>), FALSE),
          cached |-> cached]
    ELSE IF getBundledBinaryPath \in disk
    THEN [promise |-> PromiseOf(call, "fulfilled", getBundledBinaryPath, FALSE),
          cached |-> Some(getBundledBinaryPath)]
    ELSE [promise |-> PromiseOf(call, "pending", Null, TRUE),
          cached |-> cached]

\* binary.ts 277-300: ensureBinary up to the await inside
\* downloadBundledBinary
ensureStart(call, options, cached) ==
    LET binaryPath == getBinaryPath(options.binaryPath, cached)
        after == cacheAfterResolve(options.binaryPath, cached)
    IN  IF binaryPath \in disk
        THEN [promise |->
                  IF ~verifyBinary(Some(binaryPath), after)
                  THEN PromiseOf(call, "rejected",
                                 BinaryNotFoundError(<<binaryPath>>), FALSE)
                  ELSE PromiseOf(call, "fulfilled", binaryPath, FALSE),
              cached |-> after]
        ELSE IF Truthy(options.binaryPath)
        THEN [promise |-> PromiseOf(call, "rejected",
                                    BinaryNotFoundError(<<options.binaryPath[1]>>),
                                    FALSE),
              cached |-> after]
        ELSE IF options.download = "false"
        THEN [promise |-> PromiseOf(call, "rejected",
                                    BinaryNotFoundError(<<binaryPath>>), FALSE),
              cached |-> after]
        ELSE downloadStart(call, after)

(***************************************************************************)
(* The locator specification: the exported functions of binary.ts and the  *)
(* ZipWrapper constructor are called in any order, on a machine and a disk *)
(* chosen at the start; a fetch that was started ends later, well or not.  *)
(***************************************************************************)
\* the machines: every file prints its help and exits with 0, or every
\* file exits with another status
Probes ==
    {[p \in {getBundledBinaryPath, PATH_custom} |-> outcome] :
        outcome \in {"exit0", "nonzero"}}

\* with a bundled asset for the platform, or without one
Hosts == {h \in [hasAsset : BOOLEAN, probe : Probes] :
             h.hasAsset \/ h.probe[getBundledBinaryPath] = "exit0"}

\* customPath as a caller may give it: not given, a path, or empty as well
CustomPaths == {Null, Some(PATH_custom), Some(PATH_missing)}
CustomPathsOrEmpty == CustomPaths \cup {Some("")}

\* the options of ensureBinary: a custom path, or none with or without the
\* permission to download
EnsureOptions ==
    {o \in [binaryPath : CustomPaths, download : {"undefined", "false"}] :
        o.binaryPath = Null \/ o.download = "undefined"}

\* how a fetch ends (index.ts 668-708): the file is written, or the server
\* answers with another status than 200, or the connection fails
FetchOutcomes == {"written", "status404", "networkError"}

BinaryInit ==
    /\ ProcessInit
    /\ fn = "none"
    /\ input = Null
    /\ result = Null
    /\ cachedBinaryPath = Null
    /\ cachedBinaryInfo = Null
    /\ host \in Hosts
    /\ disk \in SUBSET {getBundledBinaryPath, PATH_custom}
    /\ downloads = <<>>
    /\ fetches = 0
    /\ volume = <<>>
    /\ streams = <<>>
    /\ instances = <<>>

\* a call of the locator: its name, its argument, what it returned or threw
Called(name, argument, outcome) ==
    /\ fn' = name
    /\ input' = [argument |-> argument]
    /\ result' = Some(outcome)
    /\ UNCHANGED <<timerArmed, killed, stdoutChunks, stderrChunks, crashed,
                   promise, calls, progressLog>>
    /\ UNCHANGED childVars
    /\ UNCHANGED cfgVars
    /\ UNCHANGED <<host, volume, streams, instances>>

Returned(value) == [kind |-> "return", value |-> value]

\* binary.ts 87-94
GetPath ==
    /\ cachedBinaryPath' = Some(getPath(cachedBinaryPath))
    /\ Called("getPath", Null, Returned(getPath(cachedBinaryPath)))
    /\ UNCHANGED <<cachedBinaryInfo, disk, downloads, fetches>>

\* binary.ts 99-102
SetCachePath(binaryPath) ==
    /\ cachedBinaryPath' = Some(getBinaryPath(binaryPath, cachedBinaryPath))
    /\ Called("setCachePath", binaryPath,
              Returned(getBinaryPath(binaryPath, cachedBinaryPath)))
    /\ UNCHANGED <<cachedBinaryInfo, disk, downloads, fetches>>

\* binary.ts 112-117
GetBinaryPath(customPath) ==
    /\ cachedBinaryPath' = cacheAfterResolve(customPath, cachedBinaryPath)
    /\ Called("getBinaryPath", customPath,
              Returned(getBinaryPath(customPath, cachedBinaryPath)))
    /\ UNCHANGED <<cachedBinaryInfo, disk, downloads, fetches>>

\* binary.ts 203-220
VerifyBinary(binaryPath) ==
    /\ cachedBinaryPath' = cacheAfterResolve(binaryPath, cachedBinaryPath)
    /\ Called("verifyBinary", binaryPath,
              Returned(verifyBinary(binaryPath, cachedBinaryPath)))
    /\ UNCHANGED <<cachedBinaryInfo, disk, downloads, fetches>>

\* binary.ts 225-233
EnsureBinaryPath(customPath) ==
    /\ cachedBinaryPath' = cacheAfterResolve(customPath, cachedBinaryPath)
    /\ Called("ensureBinaryPath", customPath,
              ensureBinaryPath(customPath, cachedBinaryPath))
    /\ UNCHANGED <<cachedBinaryInfo, disk, downloads, fetches>>

\* binary.ts 150-175
GetBinaryInfo(customPath) ==
    /\ IF ~Truthy(customPath) /\ cachedBinaryInfo # Null
       THEN /\ Called("getBinaryInfo", customPath, Returned(cachedBinaryInfo[1]))
            /\ UNCHANGED <<cachedBinaryPath, cachedBinaryInfo>>
       ELSE LET made == BinaryInfo(getBinaryPath(customPath, cachedBinaryPath))
            IN  /\ Called("getBinaryInfo", customPath, Returned(made))
                /\ cachedBinaryPath' = cacheAfterResolve(customPath, cachedBinaryPath)
                /\ cachedBinaryInfo' = IF ~Truthy(customPath) THEN Some(made)
                                       ELSE cachedBinaryInfo
    /\ UNCHANGED <<disk, downloads, fetches>>

\* binary.ts 305-308
ClearBinaryCache ==
    /\ cachedBinaryPath' = Null
    /\ cachedBinaryInfo' = Null
    /\ Called("clearBinaryCache", Null, Returned(Null))
    /\ UNCHANGED <<disk, downloads, fetches>>

\* an asynchronous call returns its promise, settled already or waiting for
\* the fetch it started
Started(name, argument, start) ==
    /\ Len(downloads) < MaxAsyncCalls
    /\ downloads' = Append(downloads, start.promise)
    /\ fetches' = IF start.promise.fetching THEN fetches + 1 ELSE fetches
    /\ cachedBinaryPath' = start.cached
    /\ Called(name, argument, Returned([promise |-> Len(downloads) + 1]))
    /\ UNCHANGED <<cachedBinaryInfo, disk>>

\* binary.ts 238-259
DownloadBundledBinary ==
    Started("downloadBundledBinary", Null,
            downloadStart("downloadBundledBinary", cachedBinaryPath))

\* binary.ts 277-300
EnsureBinary(options) ==
    Started("ensureBinary", options,
            ensureStart("ensureBinary", options, cachedBinaryPath))

\* binary.ts 259-271 and index.ts 668-708: the fetch of the promise i ends
FetchEnds(i, outcome) ==
    /\ downloads[i].state = "pending"
    /\ IF outcome = "written"
       THEN /\ disk' = disk \cup {getBundledBinaryPath}
            /\ cachedBinaryPath' = Some(getBundledBinaryPath)
            /\ cachedBinaryInfo' = Null
            /\ downloads' = [downloads EXCEPT ![i].state = "fulfilled",
                                              ![i].value = getBundledBinaryPath]
       ELSE /\ downloads' = [downloads EXCEPT ![i].state = "rejected",
                                              ![i].value = [name |-> "Error",
                                                            message |-> outcome]]
            /\ UNCHANGED <<disk, cachedBinaryPath, cachedBinaryInfo>>
    /\ Called("downloadFile", Some(i), Returned(outcome))
    /\ UNCHANGED fetches

\* index.ts 127-139: new ZipWrapper(options)
NewZipWrapper(options) ==
    LET initialised == Some(getPath(cachedBinaryPath))
    IN  IF Truthy(options.binaryPath)
        THEN LET binFile == ensureBinaryPath(options.binaryPath, initialised)
             IN  /\ IF binFile.kind = "throw"
                    THEN /\ cachedBinaryPath' = initialised
                         /\ Called("ZipWrapper", options.binaryPath, binFile)
                    ELSE /\ cachedBinaryPath' = Some(binFile.value)
                         /\ Called("ZipWrapper", options.binaryPath,
                                   Returned([binaryPath |-> binFile.value]))
                 /\ UNCHANGED <<cachedBinaryInfo, disk, downloads, fetches>>
        ELSE LET start == ensureStart("ensureBinary",
                                      [binaryPath |-> Null, download |-> "undefined"],
                                      initialised)
             IN  /\ Len(downloads) < MaxAsyncCalls
                 /\ downloads' = Append(downloads, start.promise)
                 /\ fetches' = IF start.promise.fetching THEN fetches + 1
                               ELSE fetches
                 /\ cachedBinaryPath' = start.cached
                 /\ Called("ZipWrapper", options.binaryPath,
                           Returned([binaryPath |-> getPath(start.cached)]))
                 /\ UNCHANGED <<cachedBinaryInfo, disk>>

BinaryNext ==
    \/ GetPath
    \/ \E binaryPath \in CustomPaths : SetCachePath(binaryPath)
    \/ \E customPath \in CustomPathsOrEmpty : GetBinaryPath(customPath)
    \/ \E binaryPath \in CustomPaths : VerifyBinary(binaryPath)
    \/ \E customPath \in CustomPaths : EnsureBinaryPath(customPath)
    \/ \E customPath \in CustomPaths : GetBinaryInfo(customPath)
    \/ ClearBinaryCache
    \/ DownloadBundledBinary
    \/ \E options \in EnsureOptions : EnsureBinary(options)
    \/ \E i \in 1..Len(downloads), outcome \in FetchOutcomes : FetchEnds(i, outcome)
    \/ \E options \in [binaryPath : CustomPathsOrEmpty] : NewZipWrapper(options)

BinarySpec == BinaryInit /\ [][BinaryNext]_vars


(***************************************************************************)
(* Claims about the binary locator.                                        *)
(***************************************************************************)
\* the value the last call returned
ReturnedValue == result[1].value

\* C16: getBinaryPath returns the custom path when one is given, whatever
\* the cache holds (so never a stale cached path); otherwise the cached path
\* when the cache is populated; otherwise the default location under the
\* binary directory.
C16_ResolveOrder ==
    [][fn' = "getBinaryPath" =>
         /\ result'[1].kind = "return"
         /\ result'[1].value =
                IF input'.argument # Null /\ input'.argument[1] # ""
                THEN input'.argument[1]
                ELSE IF cachedBinaryPath # Null THEN cachedBinaryPath[1]
                ELSE getBundledBinaryPath]_vars

\* getBinaryPath was called with a custom path while the cache held another
C16_Witness ==
    /\ fn = "getBinaryPath"
    /\ input.argument = Some(PATH_custom)
    /\ cachedBinaryPath = Some(PATH_missing)
    /\ ReturnedValue = PATH_custom

\* getBinaryPath was called without a path and returned the cached one
C16_WitnessCached ==
    /\ fn = "getBinaryPath"
    /\ input.argument = Null
    /\ cachedBinaryPath = Some(PATH_custom)
    /\ ReturnedValue = PATH_custom


\* C17 (as stated): once the cache is populated, the cached path and the
\* cached binary info change only when clearBinaryCache is called.
C17_OnlyClearChanges ==
    [][/\ (cachedBinaryPath # Null /\ cachedBinaryPath' # cachedBinaryPath)
           => fn' = "clearBinaryCache"
       /\ (cachedBinaryInfo # Null /\ cachedBinaryInfo' # cachedBinaryInfo)
           => fn' = "clearBinaryCache"]_vars

\* the calls that end in downloadBundledBinary, and the end of its fetch
DownloadCalls == {"downloadBundledBinary", "ensureBinary", "ZipWrapper", "downloadFile"}

\* C17 (amended): a populated cached path is kept by getPath, getBinaryPath,
\* verifyBinary, ensureBinaryPath and getBinaryInfo; it changes only when
\* clearBinaryCache empties it, when setCachePath or the constructor is given
\* a path (which it then holds), or when downloadBundledBinary finds or has
\* fetched the bundled binary (which it then holds).  The cached info changes
\* only when clearBinaryCache or a finished fetch empties it.
C17_CacheChanges ==
    [][/\ (cachedBinaryPath # Null /\ cachedBinaryPath' # cachedBinaryPath)
           => \/ fn' = "clearBinaryCache" /\ cachedBinaryPath' = Null
              \/ /\ fn' \in {"setCachePath", "ZipWrapper"}
                 /\ input'.argument # Null
                 /\ cachedBinaryPath' = input'.argument
              \/ /\ fn' \in DownloadCalls
                 /\ cachedBinaryPath' = Some(getBundledBinaryPath)
                 /\ getBundledBinaryPath \in disk'
       /\ (cachedBinaryInfo # Null /\ cachedBinaryInfo' # cachedBinaryInfo)
           => /\ fn' \in {"clearBinaryCache", "downloadFile"}
              /\ cachedBinaryInfo' = Null]_vars

\* setCachePath replaced a cached path: the info cached before it still
\* names the bundled path
C17_Witness ==
    /\ fn = "setCachePath"
    /\ input.argument = Some(PATH_custom)
    /\ cachedBinaryPath = Some(PATH_custom)
    /\ cachedBinaryInfo # Null
    /\ cachedBinaryInfo[1].path = getBundledBinaryPath


\* the promises ensureBinary returned (the constructor calls ensureBinary too)
EnsurePromises == {i \in 1..Len(downloads) : downloads[i].call = "ensureBinary"}

\* C18: ensureBinary either returns a verified binary path or fails with
\* BinaryNotFound: every failure, a failed fetch included, reaches the
\* caller as BinaryNotFound carrying the attempted path.
C18_FailsWithBinaryNotFound ==
    \A i \in EnsurePromises :
        downloads[i].state = "rejected" =>
            /\ downloads[i].value.name = "BinaryNotFoundError"
            /\ downloads[i].value.searchedPaths # <<>>

\* C18, the path of a fulfilled ensureBinary is a verified one
C18_FulfilledVerified ==
    \A i \in EnsurePromises :
        downloads[i].state = "fulfilled" =>
            verifyBinary(Some(downloads[i].value), cachedBinaryPath)

\* C18, no fetch is started when a custom path was given or when downloading
\* is disallowed
C18_NoFetchWhenForbidden ==
    (/\ fn = "ensureBinary"
     /\ \/ Truthy(input.argument.binaryPath)
        \/ input.argument.download = "false")
        => ~downloads[ReturnedValue.promise].fetching

\* ensureBinary was refused a download and rejected without a fetch
C18_WitnessNoFetch ==
    /\ fn = "ensureBinary"
    /\ input.argument.download = "false"
    /\ downloads[ReturnedValue.promise].state = "rejected"
    /\ fetches = 0


\* the path the last call of verifyBinary or ensureBinaryPath resolved: the
\* custom one, or the one it left in the cache
ResolvedPath ==
    IF Truthy(input.argument) THEN input.argument[1] ELSE cachedBinaryPath[1]

\* C19: verifyBinary returns false when no file exists at the path, and an
\* existing executable that exits with a non-zero status (or prints its
\* help) when run without arguments is not given a negative verdict:
\* verifyBinary returns true for it and ensureBinaryPath does not report it
\* as not found.
C19_BenignProbe ==
    /\ fn = "verifyBinary" => ReturnedValue = (ResolvedPath \in disk)
    /\ fn = "ensureBinaryPath" =>
           (ResolvedPath \in disk => result[1].kind = "return")

\* C19, the part about a missing file alone
C19_MissingIsFalse ==
    /\ fn = "verifyBinary" /\ ResolvedPath \notin disk => ReturnedValue = FALSE
    /\ fn = "ensureBinaryPath" /\ ResolvedPath \notin disk =>
           /\ result[1].kind = "throw"
           /\ result[1].error = BinaryNotFoundError(<<ResolvedPath>>)

\* verifyBinary was asked about a path where no file exists
C19_WitnessMissing ==
    /\ fn = "verifyBinary"
    /\ input.argument = Some(PATH_missing)
    /\ ReturnedValue = FALSE

\* C20: constructing a ZipWrapper throws when the resolved binary path, the
\* custom path of the options or the default bundled path, does not exist
\* or is not executable.
C20_ConstructorThrows ==
    [][fn' = "ZipWrapper" =>
         LET binaryPath == IF Truthy(input'.argument) THEN input'.argument[1]
                           ELSE getPath(cachedBinaryPath)
         IN  binaryPath \notin disk => result'[1].kind = "throw"]_vars

\* C20, the custom path alone: a wrapper given a custom path where no
\* binary exists is never constructed
C20_CustomPathThrows ==
    (fn = "ZipWrapper" /\ Truthy(input.argument)
                       /\ input.argument[1] \notin disk)
        => /\ result[1].kind = "throw"
           /\ result[1].error = BinaryNotFoundError(<<input.argument[1]>>)

\* a wrapper was refused for its missing custom path
C20_WitnessCustom ==
    /\ fn = "ZipWrapper"
    /\ input.argument = Some(PATH_missing)
    /\ result[1].kind = "throw"


(***************************************************************************)
(* Further properties of run.                                              *)
(***************************************************************************)
\* the Generic error: the base class, with no code of its own
IsGeneric(error) == error.name = "ZipWrapperError"

\* the 'error' handler runs in this step
ErrorHandled == ~errorEmitted /\ errorEmitted'

\* after a failed spawn or a handled 'error' no termination signal is sent
\* and the outcome stays
FailurePathIsFinal ==
    (op = "run" /\ (SpawnThrew \/ errorEmitted)) =>
        /\ signals' = signals
        /\ promise' = promise

\* C21 (as stated): when spawning fails or the child emits 'error', run
\* fails with a Generic error wrapping the OS error message; afterwards the
\* timeout sends no termination signal and a later 'close' does not change
\* the outcome.
C21_GenericOnSpawnFailure ==
    /\ [](op = "run" /\ SpawnThrew =>
            /\ Rejected
            /\ IsGeneric(promise.value))
    /\ [][/\ (op = "run" /\ ErrorHandled) =>
                /\ promise'.state = "rejected"
                /\ IsGeneric(promise'.value)
          /\ FailurePathIsFinal]_vars

\* C21 (amended): when ensureBinaryPath refuses the binary run fails at once
\* with BinaryNotFound; when spawn itself throws, or the child emits 'error'
\* while the run is pending, run fails with a Generic error wrapping the OS
\* error message ('error' after the timeout leaves the Timeout error).
\* Afterwards the timeout sends no termination signal and a later 'close'
\* does not change the outcome.
C21_FailsAtOnce ==
    /\ [](op = "run" /\ SpawnThrew =>
            /\ Rejected
            /\ promise.value \in
                   {BinaryNotFoundError(<<"7za">>),
                    ZipWrapperError(<<"Failed to spawn 7-Zip process: ", "EACCES">>)})
    /\ [][/\ (op = "run" /\ ErrorHandled) =>
                /\ ~timerArmed'
                /\ promise' =
                       IF Settled THEN promise
                       ELSE [state |-> "rejected",
                             value |-> ZipWrapperError(
                                 <<"Failed to execute 7-Zip: ", "ENOENT">>)]
          /\ FailurePathIsFinal]_vars

\* C21 witness: the child emitted 'error' under a running timeout and closed
\* later; the Generic error stands and no signal was sent.
C21_Witness ==
    /\ op = "run"
    /\ timeout > 0
    /\ errorEmitted
    /\ childState = "closed"
    /\ exitCode = Num(0)
    /\ signals = 0
    /\ Rejected
    /\ IsGeneric(promise.value)


\* the executor of run has just run and spawned the child
Spawned == op = "idle" /\ op' = "run" /\ childState' = "alive"

\* C22: the timeout of a run starts at spawn time with the configured
\* value, 30000 ms when none is given; with a configured timeout of 0 no
\* timer is armed, so run never sends a termination signal and never fails
\* with a Timeout error, however long the child runs.
C22_TimeoutStartsAtSpawn ==
    /\ [](op = "run" =>
            /\ timeout = IF input.timeout = Null THEN 30000
                         ELSE input.timeout[1]
            /\ input.timeout = Num(0) =>
                   /\ ~timerArmed
                   /\ signals = 0
                   /\ ~killed
                   /\ Rejected => promise.value.name # "TimeoutError")
    /\ [][Spawned => (timerArmed' <=> timeout' > 0)]_vars

\* C22 witness: a run with the timeout disabled whose child is still alive
\* after it wrote all its output
C22_Witness ==
    /\ op = "run"
    /\ input.timeout = Num(0)
    /\ childState = "alive"
    /\ Len(stdoutChunks) = MaxStdoutChunks
    /\ ~timerArmed
    /\ ~Settled

\* a run with no configured timeout ended by the default timeout
C22_WitnessDefault ==
    /\ op = "run"
    /\ input.timeout = Null
    /\ Rejected
    /\ promise.value = TimeoutError(30000, <<"7za", args[1]>>)


(***************************************************************************)
(* Properties of addFromStream.                                            *)
(***************************************************************************)
Adding == op = "addFromStream"
ClosedWith(code) == childState = "closed" /\ exitCode = code

\* the switch that names the file read from stdin stands right after the verb
ReadsStdin ==
    /\ args[1] = <<"a">>
    /\ SubSeq(args[2], 1, 3) = <<"-", "s", "i">>
    /\ Len(args[2]) > 3

\* a settled promise keeps its outcome
SettlesOnce == Settled => promise' = promise

\* C23 (as stated): addFromStream passes '-si<filename>', resolves if and
\* only if the child closes with exit code 0, rejects when the child closes
\* with another code, when the child emits 'error' or when the source stream
\* emits 'error', and settles at most once.
C23_ResolvesIffExitZero ==
    /\ [](Adding =>
            /\ ReadsStdin
            /\ Fulfilled <=> ClosedWith(Num(0))
            /\ (childState = "closed" /\ exitCode # Num(0)) => Rejected
            /\ errorEmitted => Rejected
            /\ sourceErrored => Rejected)
    /\ [][Adding => SettlesOnce]_vars

\* C23 (amended): addFromStream passes '-si<filename>' and the first of the
\* events decides: while the promise is pending, a close with exit code 0
\* resolves it, and a close with any other code, an 'error' of the child or
\* an 'error' of the source stream rejects it; it resolves only for a child
\* closed with exit code 0, is settled after any of these events, and
\* settles at most once.
C23_FirstEventDecides ==
    /\ [](Adding =>
            /\ ReadsStdin
            /\ Fulfilled => ClosedWith(Num(0))
            /\ (childState = "closed" \/ errorEmitted \/ sourceErrored) => Settled
            /\ Settled => calls # <<>> /\ promise = FirstCallOutcome)
    /\ [][Adding =>
            /\ SettlesOnce
            /\ (~Settled /\ childState' = "closed") =>
                   (promise'.state = "fulfilled" <=> exitCode' = Num(0))
            /\ (~Settled /\ childState' = "closed" /\ exitCode' # Num(0)) =>
                   promise'.state = "rejected"
            /\ (~Settled /\ ~errorEmitted /\ errorEmitted') =>
                   promise'.state = "rejected"
            /\ (~Settled /\ ~sourceErrored /\ sourceErrored') =>
                   promise'.state = "rejected"]_vars

\* C23 witness: the source stream failed, then the child closed with exit
\* code 0: the rejection of the source error stands
C23_Witness ==
    /\ Adding
    /\ sourceErrored
    /\ ClosedWith(Num(0))
    /\ Len(calls) = 2
    /\ calls[2].fn = "resolve"
    /\ Rejected
    /\ promise.value.code = "ESOURCE"


(***************************************************************************)
(* Concurrent downloads: ensureBinary is called again while the fetch of   *)
(* an earlier call is under way (binary.ts 238-300 with downloadFile,      *)
(* index.ts 668-708).  The server answers 200 and sends the asset in       *)
(* chunks; every call writes them through its own stream.                  *)
(***************************************************************************)
\* the most calls of ensureBinary in one behaviour
MaxConcurrent == 2
\* the chunks the asset is sent in
MaxFileChunks == 3

\* index.ts 684: `${dest}.download`
PATH_temp == "bin/7za.download"

\* a volume without files: names gives the inode of each path (0: no such
\* file), inodes the offsets of the chunks each inode holds
EmptyVolume ==
    [names |-> [p \in {getBundledBinaryPath, PATH_temp} |-> 0],
     inodes |-> <<>>]

\* fs.existsSync over the volume
existing(vol) == {p \in DOMAIN vol.names : vol.names[p] # 0}

\* index.ts 685: fs.createWriteStream(tempPath) opens with the flag 'w': the
\* file is created, or truncated when it exists
createWriteStream(vol, path) ==
    IF vol.names[path] # 0
    THEN [vol EXCEPT !.inodes[vol.names[path]] = {}]
    ELSE [names |-> [vol.names EXCEPT ![path] = Len(vol.inodes) + 1],
          inodes |-> Append(vol.inodes, {})]

\* index.ts 705: res.pipe(file) writes the next chunk at the stream's own
\* position, into the inode the stream opened
writeChunk(vol, inode, offset) == [vol EXCEPT !.inodes[inode] = @ \cup {offset}]

\* index.ts 701: fs.renameSync(tempPath, dest)
renameSync(vol, from, to) ==
    [vol EXCEPT !.names[to] = vol.names[from], !.names[from] = 0]

\* the write stream of a call: not opened, waiting for the response,
\* writing, closed after the rename, or its 'close' callback threw
StreamOf(pc, inode, written) == [pc |-> pc, inode |-> inode, written |-> written]

RaceInit ==
    /\ ProcessInit
    /\ fn = "none"
    /\ input = Null
    /\ result = Null
    /\ cachedBinaryPath = Null
    /\ cachedBinaryInfo = Null
    /\ host = [hasAsset |-> TRUE,
               probe |-> [p \in {getBundledBinaryPath, PATH_custom} |-> "exit0"]]
    /\ disk = {}
    /\ downloads = <<>>
    /\ fetches = 0
    /\ volume = EmptyVolume
    /\ streams = <<>>
    /\ instances = <<>>

\* an asynchronous call returns: its promise joins the list, with the
\* stream of the request downloadFile made (index.ts 668-670), if it made one
RaceStarted(name, argument, start, returned) ==
    /\ ~crashed
    /\ Len(downloads) < MaxConcurrent
    /\ downloads' = Append(downloads, start.promise)
    /\ streams' = Append(streams,
                         StreamOf(IF start.promise.fetching
                                  THEN "requested" ELSE "none", 0, 0))
    /\ fetches' = IF start.promise.fetching THEN fetches + 1 ELSE fetches
    /\ cachedBinaryPath' = start.cached
    /\ fn' = name
    /\ input' = [argument |-> argument]
    /\ result' = Some(Returned(returned))
    /\ UNCHANGED <<timerArmed, killed, stdoutChunks, stderrChunks, crashed,
                   promise, calls, progressLog>>
    /\ UNCHANGED childVars
    /\ UNCHANGED cfgVars
    /\ UNCHANGED <<cachedBinaryInfo, host, disk, volume>>
    /\ UNCHANGED instances

\* binary.ts 277-300 and 238-259: ensureBinary()
RaceEnsureBinary ==
    LET options == [binaryPath |-> Null, download |-> "undefined"]
    IN  RaceStarted("ensureBinary", options,
                    ensureStart("ensureBinary", options, cachedBinaryPath),
                    [promise |-> Len(downloads) + 1])

\* index.ts 127-139: new ZipWrapper(), which calls ensureBinary()
RaceNewZipWrapper ==
    LET options == [binaryPath |-> Null, download |-> "undefined"]
        start == ensureStart("ensureBinary", options,
                             Some(getPath(cachedBinaryPath)))
    IN  RaceStarted("ZipWrapper", Null, start,
                    [binaryPath |-> getPath(start.cached)])

\* the steps of a fetch leave the rest alone
FetchStep ==
    /\ UNCHANGED <<timerArmed, killed, stdoutChunks, stderrChunks, promise,
                   calls, progressLog>>
    /\ UNCHANGED childVars
    /\ UNCHANGED cfgVars
    /\ UNCHANGED pureVars
    /\ UNCHANGED <<host, fetches, instances>>

\* index.ts 671-686: the response with status 200 arrives
ResponseArrives(i) ==
    /\ ~crashed
    /\ streams[i].pc = "requested"
    /\ volume' = createWriteStream(volume, PATH_temp)
    /\ streams' = [streams EXCEPT
                       ![i] = StreamOf("writing", volume'.names[PATH_temp], 0)]
    /\ disk' = existing(volume')
    /\ UNCHANGED <<cachedBinaryPath, cachedBinaryInfo, downloads, crashed>>
    /\ FetchStep

\* index.ts 705: a chunk of the response is written
WriteChunk(i) ==
    /\ ~crashed
    /\ streams[i].pc = "writing"
    /\ streams[i].written < MaxFileChunks
    /\ volume' = writeChunk(volume, streams[i].inode, streams[i].written + 1)
    /\ streams' = [streams EXCEPT ![i].written = @ + 1]
    /\ UNCHANGED <<cachedBinaryPath, cachedBinaryInfo, downloads, crashed, disk>>
    /\ FetchStep

\* index.ts 699-704 and binary.ts 259-271: 'finish', then the callback of
\* file.close renames the temporary file and resolves; renameSync throws
\* when the temporary file is gone, outside any try block or promise
\* executor: an uncaught exception
Finish(i) ==
    /\ ~crashed
    /\ streams[i].pc = "writing"
    /\ streams[i].written = MaxFileChunks
    /\ IF volume.names[PATH_temp] = 0
       THEN /\ crashed' = TRUE
            /\ streams' = [streams EXCEPT ![i].pc = "threw"]
            /\ UNCHANGED <<volume, disk, downloads, cachedBinaryPath,
                           cachedBinaryInfo>>
       ELSE /\ volume' = renameSync(volume, PATH_temp, getBundledBinaryPath)
            /\ disk' = existing(volume')
            /\ streams' = [streams EXCEPT ![i].pc = "closed"]
            /\ downloads' = [downloads EXCEPT
                                 ![i].state = "fulfilled",
                                 ![i].value = getBundledBinaryPath]
            /\ cachedBinaryPath' = Some(getBundledBinaryPath)
            /\ cachedBinaryInfo' = Null
            /\ UNCHANGED crashed
    /\ FetchStep

RaceNext ==
    \/ RaceEnsureBinary
    \/ RaceNewZipWrapper
    \/ \E i \in 1..Len(streams) : ResponseArrives(i)
    \/ \E i \in 1..Len(streams) : WriteChunk(i)
    \/ \E i \in 1..Len(streams) : Finish(i)

RaceSpec == RaceInit /\ [][RaceNext]_vars

\* the file at the path holds every chunk of the asset
Complete(path) ==
    /\ volume.names[path] # 0
    /\ volume.inodes[volume.names[path]] = 1..MaxFileChunks

\* no fetch is under way
Quiet == \A i \in 1..Len(streams) : streams[i].pc \notin {"requested", "writing"}

\* C24: two ensureBinary calls that interleave while no local binary exists
\* are a benign race: neither call fails because of the other, a call that
\* completed returned the bundled path, which the cache holds and at which
\* one completely downloaded binary stands, and no partial file is left.
C24_BenignRace ==
    /\ ~crashed
    /\ \A i \in 1..Len(downloads) :
           /\ downloads[i].state # "rejected"
           /\ downloads[i].state = "fulfilled" =>
                  /\ downloads[i].value = getBundledBinaryPath
                  /\ cachedBinaryPath = Some(getBundledBinaryPath)
                  /\ Complete(getBundledBinaryPath)
    /\ Quiet => volume.names[PATH_temp] = 0

\* C24, the calls one after the other: a call made when the earlier fetch
\* has finished finds the binary and completes at once
C24_SequentialCalls ==
    (Len(streams) = 2 /\ streams[2].pc = "none") =>
        /\ ~crashed
        /\ downloads[1].state = "fulfilled"
        /\ downloads[2] = PromiseOf("ensureBinary", "fulfilled",
                                    getBundledBinaryPath, FALSE)
        /\ Complete(getBundledBinaryPath)


(***************************************************************************)
(* The check of the archive's existence.                                   *)
(***************************************************************************)
\* the commands that work on an existing archive
ValidatingCommands ==
    {"extract", "list", "update", "delete", "test", "hashArchive", "info",
     "rename", "convert", "extractToStream"}

\* C25: extract, list, update, deleteFiles, test, hashArchive, info, rename,
\* convert and extractToStream fail with ArchiveNotFound carrying the archive
\* path, and hand nothing to the runner, when the archive file does not
\* exist (and only then); add and addFromStream do not check: they hand
\* their vector to the runner whether the archive exists or not.
C25_ArchiveMustExist ==
    /\ (fn \in ValidatingCommands /\ ~input.exists) =>
           result[1] = [kind |-> "throw",
                        error |-> [name |-> "ArchiveNotFoundError",
                                   code |-> "ARCHIVE_NOT_FOUND",
                                   archivePath |-> input.archive]]
    /\ (fn \in ValidatingCommands /\ input.exists) => result[1].kind = "run"
    /\ fn \in {"add", "addFromStream"} => result[1].kind = "run"

\* C25 witness: rename was called on an archive that does not exist
C25_Witness ==
    /\ fn = "rename"
    /\ ~input.exists
    /\ result[1].kind = "throw"
    /\ result[1].error.archivePath = PATH_archive

\* add was called on an archive that does not exist and reached the runner
C25_WitnessAdd ==
    /\ fn = "add"
    /\ ~input.exists
    /\ result[1].kind = "run"


(***************************************************************************)
(* convert (commands.ts 480-502): the extract and the add it awaits, and   *)
(* the temporary directory.  disk holds the paths that exist, fn the       *)
(* command convert is waiting for, result the runs it has awaited so far.  *)
(***************************************************************************)
TYPE_tar == <<"t", "a", "r">>
PATH_output == <<"o", ".", "z", "i", "p">>
PATH_plain == <<"b", "a", "k">>

\* the last dot of the path that has a character after it and no dot: the
\* start of /\.[^.]+$/, 0 when there is none
extensionDot(path) ==
    LET dots == {i \in 1..(Len(path) - 1) :
                    /\ path[i] = "."
                    /\ \A j \in (i + 1)..Len(path) : path[j] # "."}
    IN  IF dots = {} THEN 0 ELSE CHOOSE i \in dots : TRUE

\* commands.ts 496: outputArchive || sourceArchive.replace(/\.[^.]+$/, `.${targetFormat}`)
outputOf(sourceArchive, targetFormat, outputArchive) ==
    IF outputArchive # <<>> THEN outputArchive
    ELSE IF extensionDot(sourceArchive) = 0 THEN sourceArchive
    ELSE SubSeq(sourceArchive, 1, extensionDot(sourceArchive)) \o targetFormat

\* the options convert gives to add: { type: targetFormat }
ConvertAddOptions(targetFormat) ==
    [type |-> targetFormat, level |-> Null, password |-> <<>>,
     includePatterns |-> <<>>, excludePatterns |-> <<>>,
     method |-> <<>>, dictionarySize |-> <<>>, wordSize |-> Null,
     threads |-> Null, solid |-> FALSE, sfx |-> FALSE, volumes |-> <<>>,
     encryptFilenames |-> FALSE, recursive |-> "undefined",
     followSymlinks |-> FALSE, storeSymlinks |-> FALSE,
     onProgress |-> FALSE, cwd |-> <<>>]

\* commands.ts 497: add(output, tempDir, { type: targetFormat })
convertAdd(sourceArchive, targetFormat, outputArchive) ==
    add(outputOf(sourceArchive, targetFormat, outputArchive),
        [isArray |-> FALSE, items |-> <<tempDirOf(sourceArchive)>>],
        ConvertAddOptions(targetFormat))

\* a cleanup that leaves the directory
rmSyncNothing(paths, dir) == paths

\* commands.ts 500: fs.rmSync(tempDir, { recursive: true, force: true })
rmSync(paths, dir) == paths \ {dir}

\* how a run that convert awaits may end: it resolves with the Result of
\* exit code 0 or 1, or rejects with one of run's errors
RunEndings ==
    {[state |-> "fulfilled", cause |-> "close", code |-> Num(EXIT_SUCCESS)],
     [state |-> "fulfilled", cause |-> "close", code |-> Num(EXIT_WARNING)],
     [state |-> "rejected", cause |-> "close", code |-> Num(EXIT_FATAL_ERROR)],
     [state |-> "rejected", cause |-> "close", code |-> Num(EXIT_USER_STOPPED)],
     [state |-> "rejected", cause |-> "timeout", code |-> Null],
     [state |-> "rejected", cause |-> "binaryNotFound", code |-> Null],
     [state |-> "rejected", cause |-> "spawnThrows", code |-> Null]}

\* what the awaited run delivers
runOutcome(ending) ==
    IF ending.state = "fulfilled"
    THEN [state |-> "fulfilled", value |-> ArchiveResult(ending.code)]
    ELSE [state |-> "rejected",
          value |-> IF ending.cause = "timeout"
                    THEN TimeoutError(DEFAULT_TIMEOUT_MS, <<"7za", args[1]>>)
                    ELSE IF ending.cause \in {"binaryNotFound", "spawnThrows"}
                    THEN spawnError(ending.cause)
                    ELSE withResult(parseZipWrapperError(<<>>, <<>>, ending.code,
                                                         archivePath),
                                    ArchiveResult(ending.code))]

ConvertInit ==
    /\ ProcessInit
    /\ BinaryIdle
    /\ fn = "none"
    /\ input = Null
    /\ result = Null

\* what the steps of convert leave alone
ConvertStep ==
    /\ UNCHANGED <<timeout, onProgress, timeoutId, timerArmed, killed,
                   stdoutChunks, stderrChunks, crashed, progressLog>>
    /\ UNCHANGED childVars
    /\ UNCHANGED <<cachedBinaryPath, cachedBinaryInfo, host, downloads, fetches,
                   volume, streams, instances>>

\* commands.ts 480-493: convert is called and runs up to its first await
InvokeConvert(sourceArchive, exists, targetFormat, outputArchive) ==
    /\ op = "idle"
    /\ op' = "convert"
    /\ input' = [archive |-> sourceArchive, exists |-> exists,
                 targetFormat |-> targetFormat, outputArchive |-> outputArchive]
    /\ result' = <<>>
    /\ LET started == convertStart(sourceArchive, exists)
       IN  IF started.kind = "throw"
           THEN /\ reject(started.error)
                /\ fn' = "done"
                /\ UNCHANGED <<args, archivePath, disk>>
           ELSE /\ disk' = disk \cup {tempDirOf(sourceArchive)}
                /\ args' = started.args
                /\ archivePath' = started.options.archivePath
                /\ fn' = "extract"
                /\ UNCHANGED <<promise, calls>>
    /\ ConvertStep

\* commands.ts 493-501: the extract settles; convert goes on to add, or
\* cleans up and rejects
ExtractSettles(ending) ==
    /\ op = "convert"
    /\ fn = "extract"
    /\ result' = Append(result, [command |-> "extract", vector |-> args,
                                 outcome |-> runOutcome(ending)])
    /\ IF ending.state = "rejected"
       THEN /\ disk' = rmSync(disk, tempDirOf(input.archive))
            /\ reject(runOutcome(ending).value)
            /\ fn' = "done"
            /\ UNCHANGED <<args, archivePath>>
       ELSE LET started == convertAdd(input.archive, input.targetFormat,
                                      input.outputArchive)
            IN  /\ args' = started.args
                /\ archivePath' = started.options.archivePath
                /\ fn' = "add"
                /\ UNCHANGED <<disk, promise, calls>>
    /\ UNCHANGED <<op, input>>
    /\ ConvertStep

\* commands.ts 497-501: the add settles; convert cleans up and settles
AddSettles(ending) ==
    /\ op = "convert"
    /\ fn = "add"
    /\ result' = Append(result, [command |-> "add", vector |-> args,
                                 outcome |-> runOutcome(ending)])
    /\ disk' = rmSync(disk, tempDirOf(input.archive))
    /\ IF ending.state = "rejected"
       THEN reject(runOutcome(ending).value)
       ELSE resolve(runOutcome(ending).value)
    /\ fn' = "done"
    /\ UNCHANGED <<op, input, args, archivePath>>
    /\ ConvertStep

ConvertNext ==
    \/ \E sourceArchive \in {PATH_archive, PATH_plain}, exists \in BOOLEAN,
          targetFormat \in {TYPE_zip, TYPE_tar},
          outputArchive \in {<<>>, PATH_output} :
            InvokeConvert(sourceArchive, exists, targetFormat, outputArchive)
    \/ \E ending \in RunEndings : ExtractSettles(ending)
    \/ \E ending \in RunEndings : AddSettles(ending)

ConvertSpec == ConvertInit /\ [][ConvertNext]_vars

Converting == op = "convert"

\* the awaited run number n of this convert, when there is one
Awaited(n) == result[n]

testResult(archive, res) ==
    LET parsed == parseTestOutput(res.stdout \o res.stderr)
    IN  [archive |-> archive, ok |-> (res.success /\ parsed.ok),
         errors |-> parsed.errors]

\* commands.ts 379-381 and runner.ts 94-96: test hands its vector to run and
\* the child writes the report to stdout
TestOutput ==
    /\ fn = "parseTestOutput"
    /\ result = Null
    /\ fn' = "test"
    /\ args' = test(PATH_archive, TRUE, <<>>).args
    /\ archivePath' = PATH_archive
    /\ stdoutChunks' = <<joinLines(input)>>
    /\ UNCHANGED <<input, result>>
    /\ UNCHANGED <<op, timeout, onProgress, timeoutId, timerArmed, killed,
                   stderrChunks, crashed, promise, calls, progressLog>>
    /\ UNCHANGED childVars
    /\ UNCHANGED binaryVars

\* runner.ts 103-130 and commands.ts 382-388: the child closes; run settles
\* and, when it resolved, test returns its TestResult
TestCloses(code) ==
    /\ fn = "test"
    /\ ~Settled
    /\ onClose(code)
    /\ result' = IF code \in {Num(EXIT_SUCCESS), Num(EXIT_WARNING)}
                 THEN Some(testResult(PATH_archive, ArchiveResult(code)))
                 ELSE Null
    /\ UNCHANGED <<fn, input>>
    /\ UNCHANGED <<killed, stdoutChunks, stderrChunks, crashed, progressLog>>
    /\ UNCHANGED childVars
    /\ UNCHANGED cfgVars
    /\ UNCHANGED binaryVars

TestNext ==
    \/ ParseTest
    \/ TestOutput
    \/ \E code \in ExitCodes : TestCloses(code)

TestSpec == TestInit /\ [][TestNext]_vars

\* the Result run built: the value it resolved with, or the one attached to
\* the error it rejected with
BuiltResult == IF Fulfilled THEN promise.value ELSE promise.value.result

\* C27: every Result built by run has success true exactly when the exit
\* code is 0; a Result resolved for exit code 1 has success false, and
\* test() reports ok exactly when the exit code is 0 and the parsed report
\* is ok.
C27_SuccessIffExitZero ==
    (fn = "test" /\ Settled) =>
        /\ BuiltResult.success <=> (BuiltResult.exitCode = Num(EXIT_SUCCESS))
        /\ Fulfilled <=> BuiltResult.exitCode \in {Num(EXIT_SUCCESS), Num(EXIT_WARNING)}
        /\ Fulfilled =>
               /\ result # Null
               /\ result[1].ok <=>
                      /\ BuiltResult.exitCode = Num(EXIT_SUCCESS)
                      /\ parseTestOutput(joinLines(input)).ok
        /\ Rejected => result = Null

\* C27 witness: the report holds the banner, the child exited with 1, run
\* resolved and test reports a failure
C27_Witness ==
    /\ fn = "test"
    /\ Fulfilled
    /\ promise.value.exitCode = Num(EXIT_WARNING)
    /\ ~promise.value.success
    /\ parseTestOutput(joinLines(input)).ok
    /\ ~result[1].ok


(***************************************************************************)
(* The termination signal of run (runner.ts 78-85, 103-110, 132-138).      *)
(***************************************************************************)
\* the 'close' or the 'error' event of the child of run has been handled
CloseOrErrorHandled == op = "run" /\ (childState = "closed" \/ errorEmitted)

\* C28: run sends the termination signal at most once per run; the only step
\* that sends it is the expiry of the timer, taken while neither 'close' nor
\* 'error' has been handled; once one of them has been handled the timer is
\* no longer pending.
C28_SignalOnlyFromTimer ==
    /\ [](signals <= 1)
    /\ [](CloseOrErrorHandled => ~timerArmed)
    /\ [][signals' # signals =>
            /\ TimerFire
            /\ timeout > 0
            /\ signals = 0
            /\ signals' = 1
            /\ ~CloseOrErrorHandled]_vars

\* C28 witness: the timer expired and sent the signal, then the child closed
\* and its handler ran
C28_Witness ==
    /\ op = "run"
    /\ signals = 1
    /\ killed
    /\ childState = "closed"
    /\ ~timerArmed


(***************************************************************************)
(* ZipWrapper objects and the binary their operations spawn (index.ts      *)
(* 120-139 and 142-, commands.ts, runner.ts 37-52).                        *)
(***************************************************************************)
\* the most ZipWrapper objects of one behaviour
MaxInstances == 2

\* index.ts 127-139: the constructor: the cache it leaves, the object it
\* returns or the error it throws, and the promise of its ensureBinary()
constructed(options, cached) ==
    LET initialised == Some(getPath(cached))
    IN  IF Truthy(options.binaryPath)
        THEN LET binFile == ensureBinaryPath(options.binaryPath, initialised)
             IN  IF binFile.kind = "throw"
                 THEN [cached |-> initialised, outcome |-> binFile,
                       promises |-> <<>>]
                 ELSE [cached |-> Some(binFile.value),
                       outcome |-> Returned([binaryPath |-> binFile.value]),
                       promises |-> <<>>]
        ELSE LET start == ensureStart("ensureBinary",
                                      [binaryPath |-> Null, download |-> "undefined"],
                                      initialised)
             IN  [cached |-> start.cached,
                  outcome |-> Returned([binaryPath |-> getPath(start.cached)]),
                  promises |-> <<start.promise>>]

\* index.ts 142- and runner.ts 41: a method of the object calls its command
\* without a binaryPath, and spawnCommand resolves ensureBinaryPath(undefined)
spawnPath(cached) == ensureBinaryPath(Null, cached)

\* a call through the wrapper: its name, its argument, its outcome
Operated(name, argument, outcome) ==
    /\ fn' = name
    /\ input' = [argument |-> argument]
    /\ result' = Some(outcome)
    /\ UNCHANGED <<timerArmed, killed, stdoutChunks, stderrChunks, crashed,
                   promise, calls, progressLog>>
    /\ UNCHANGED childVars
    /\ UNCHANGED cfgVars
    /\ UNCHANGED <<host, volume, streams>>

\* index.ts 127-139: new ZipWrapper(options)
WrapperConstruct(options) ==
    /\ Len(instances) < MaxInstances
    /\ LET made == constructed(options, cachedBinaryPath)
       IN  /\ cachedBinaryPath' = made.cached
           /\ downloads' = downloads \o made.promises
           /\ fetches' = IF made.promises # <<>> /\ made.promises[1].fetching
                         THEN fetches + 1 ELSE fetches
           /\ instances' = IF made.outcome.kind = "return"
                           THEN Append(instances, made.outcome.value)
                           ELSE instances
           /\ Operated("ZipWrapper", options.binaryPath, made.outcome)
    /\ UNCHANGED <<cachedBinaryInfo, disk>>

\* index.ts 142-: a method of the object number i runs its command, up to
\* the spawn (runner.ts 37-52)
WrapperOperation(i) ==
    /\ LET binFile == spawnPath(cachedBinaryPath)
       IN  Operated("operation", Some(i),
                    IF binFile.kind = "throw" THEN binFile
                    ELSE Returned([spawned |-> binFile.value]))
    /\ cachedBinaryPath' = cacheAfterResolve(Null, cachedBinaryPath)
    /\ UNCHANGED <<cachedBinaryInfo, disk, downloads, fetches, instances>>

WrapperNext ==
    \/ \E options \in [binaryPath : CustomPathsOrEmpty] : WrapperConstruct(options)
    \/ \E i \in 1..Len(instances) : WrapperOperation(i)
    \/ \E binaryPath \in CustomPaths : SetCachePath(binaryPath)
    \/ ClearBinaryCache

WrapperSpec == BinaryInit /\ [][WrapperNext]_vars

\* C29: every operation invoked through a ZipWrapper object spawns the
\* binary at that object's binaryPath, whatever was constructed or called
\* in between.
C29_SpawnsOwnBinary ==
    (fn = "operation" /\ result[1].kind = "return") =>
        result[1].value.spawned = instances[input.argument[1]].binaryPath

\* C29, on one object alone: until another object is constructed and
\* neither setCachePath nor clearBinaryCache is called, the operations of
\* the object spawn the binary at its binaryPath
C29_UndisturbedObject ==
    [][(Len(instances) = 1 /\ fn = "ZipWrapper" /\ result[1].kind = "return"
        /\ fn' = "operation" /\ result'[1].kind = "return") =>
            result'[1].value.spawned = instances[1].binaryPath]_vars


(***************************************************************************)
(* The timeout of the commands that go through run (commands.ts 213-216,   *)
(* 272-275, ...; runner.ts 62-85).                                         *)
(***************************************************************************)
RunCommands ==
    {"add", "extract", "list", "update", "delete", "test", "hash",
     "hashArchive", "info", "rename", "benchmark"}

\* the child of a command is running and its run has not settled
StillRunning == op = "run" /\ childState = "alive" /\ ~Settled

\* C30: every child started by add, extract, list, update, deleteFiles,
\* test, hash, hashArchive, info, rename and benchmark runs under the
\* default timeout of 30000 ms, whatever options the caller gave: while it
\* runs unsettled the 30000 ms timer is pending, and the expiry of the
\* timer sends SIGTERM and rejects with TimeoutError(30000).
C30_DefaultTimeout ==
    /\ [](op = "run" =>
            /\ timeout = DEFAULT_TIMEOUT_MS
            /\ timeoutId
            /\ StillRunning => timerArmed)
    /\ [][(StillRunning /\ fn \in RunCommands /\ killed') =>
            /\ signals' = signals + 1
            /\ promise' = [state |-> "rejected",
                           value |-> TimeoutError(30000, <<"7za", args[1]>>)]]_vars

\* C30 witness: add was called with a progress callback and a working
\* directory, its child ran on, and the run was rejected with the timeout
C30_Witness ==
    /\ fn = "add"
    /\ input.options.onProgress
    /\ op = "run"
    /\ childState = "alive"
    /\ killed
    /\ signals = 1
    /\ promise.state = "rejected"
    /\ promise.value.name = "TimeoutError"
    /\ promise.value.timeoutMs = 30000

=============================================================================
